---- MODULE Spec2Model ----
(***************************************************************************)
(* Device provisioning and request authentication of the iMessage relay    *)
(* agent.                                                                  *)
(*                                                                         *)
(* Spec      the onboarding flow of ProvisionTokenScreen.handleConnectSecure*)
(*           together with the IPC handlers it invokes and the Keychain    *)
(*           (KeypairService) and configuration stores they write.         *)
(* SpecAuth  the Koa AuthMiddleware that guards every protected route.     *)
(*                                                                         *)
(* Every JavaScript value is a sequence of strings: a text is the sequence *)
(* of its characters (the words "Bearer", "Basic" and "null" count as one   *)
(* symbol), and null/undefined is the value Null.                          *)
(***************************************************************************)
EXTENDS Integers, Sequences, FiniteSets, TLC

VARIABLES
    keychain,       \* keytar: account -> stored text or Null
    config,         \* Server().repo config table: key -> value or Null
    webhooks,       \* Server().repo webhooks table: the rows in id order
    provisionToken, \* React state of ProvisionTokenScreen: the token field
    isConnecting,   \* React state of ProvisionTokenScreen
    currentStep,    \* React state of SimplifiedSetup
    started,        \* number of handleConnectSecure invocations so far
    pc,             \* position of each handleConnectSecure invocation
    loc,            \* its local constants and variables
    trace,          \* what each invocation has done so far (observation only)
    authReq,        \* the request AuthMiddleware handled last
    authOutcome,    \* what it did with it
    nextCalls,      \* how often it invoked the protected handler for it
    dispatched,     \* the call of WebhookService.dispatch: its event and end
    deliveries,     \* the sendPost call of each webhook row, and its POSTs
    signals,        \* the names of the signals emitted to the UI so far
    settled,        \* the delivery that settled last and what it emitted
    heartbeat,      \* HeartbeatService: isRunning, intervalId, startTime
    timers,         \* the timers of the event loop that are live
    now,            \* Date.now()
    hbLast,         \* the last call or tick of the HeartbeatService
    ensureCalls,    \* the calls of KeypairService.ensureKeypair: position, locals
    idLog,          \* the last clear of the Keychain, and what went before
    codec           \* the last sealed box made, and what opening it gave

vars == <<keychain, config, webhooks, provisionToken, isConnecting, currentStep,
          started, pc, loc, trace, authReq, authOutcome, nextCalls,
          dispatched, deliveries, signals, settled, heartbeat, timers, now, hbLast,
          ensureCalls, idLog, codec>>

provVars == <<keychain, config, webhooks, provisionToken, isConnecting,
              currentStep, started, pc, loc, trace>>

dispVars == <<dispatched, deliveries, signals, settled>>

hbVars == <<heartbeat, timers, now, hbLast>>

idVars == <<ensureCalls, idLog, codec>>

authVars == <<authReq, authOutcome, nextCalls>>

----------------------------------------------------------------------------
(* Bounds *)

MaxAttempts == 2    \* invocations of handleConnectSecure
MaxInstalls == 2    \* installer invocations per invocation of the flow

Attempts == 1..MaxAttempts

MaxCalls == 2       \* calls of KeypairService.ensureKeypair

Calls == 1..MaxCalls

MaxMsgLen == 2      \* UTF-16 code units of a message given to encryptSealedBox

----------------------------------------------------------------------------
(* Values *)

Null == <<"<null>">>
True == <<"true">>
False == <<"false">>

\* JavaScript truthiness of a text-or-null value
Truthy(v) == v # Null /\ v # <<>> /\ v # False

ExName(e) == "e" \o ToString(e)

\* The three secrets and the linkage the control plane issues in exchange e
PasswordOf(e) == <<"password", ExName(e)>>
TunnelTokenOf(e) == <<"tunnel", ExName(e)>>
WebhookSecretOf(e) == <<"whsecret", ExName(e)>>
HostOf(e) == <<"host", ExName(e)>>
ServerIdOf(e) == <<"server", ExName(e)>>
WebhookIdOf(e) == <<"webhook", ExName(e)>>

PublicKeyOf(g) == <<"pub", ToString(g)>>
PrivateKeyOf(g) == <<"priv", ToString(g)>>
DeviceIdOf(g) == <<"device", ToString(g)>>

\* crypto_box keypairs: the two halves of one generation
KeysMatch(pub, priv) ==
    /\ Len(pub) = 2 /\ pub[1] = "pub"
    /\ Len(priv) = 2 /\ priv[1] = "priv"
    /\ pub[2] = priv[2]

----------------------------------------------------------------------------
(* Keychain (KeypairService over keytar) *)

ACCOUNT_PRIVATE == "device_private_key"
ACCOUNT_PUBLIC == "device_public_key"
ACCOUNT_DEVICE_ID == "device_id"
ACCOUNT_SERVER_PASSWORD == "server_password"
ACCOUNT_WEBHOOK_SECRET == "webhook_secret"

Accounts == {ACCOUNT_PRIVATE, ACCOUNT_PUBLIC, ACCOUNT_DEVICE_ID,
             ACCOUNT_SERVER_PASSWORD, ACCOUNT_WEBHOOK_SECRET}

setPassword(kc, account, value) == [kc EXCEPT ![account] = value]

\* The keytar.setPassword calls of ensureKeypair, in order
KeypairWrites(g, deviceId) ==
    << <<ACCOUNT_PRIVATE, PrivateKeyOf(g)>>,
       <<ACCOUNT_PUBLIC, PublicKeyOf(g)>>,
       <<ACCOUNT_DEVICE_ID, deviceId>> >>

RECURSIVE ApplyWrites(_, _, _)
ApplyWrites(store, writes, n) ==
    IF n = 0 THEN store
    ELSE [ApplyWrites(store, writes, n - 1) EXCEPT ![writes[n][1]] = writes[n][2]]

HasIdentity(kc) ==
    Truthy(kc[ACCOUNT_PRIVATE]) /\ Truthy(kc[ACCOUNT_PUBLIC]) /\ Truthy(kc[ACCOUNT_DEVICE_ID])

\* JavaScript strings are sequences of UTF-16 code units. Apart from the
\* ASCII ones, which UTF-8 writes as one byte each (the unit itself here),
\* the model has U+00E9, the pair U+D800 U+DC00 (the code point U+10000)
\* and the replacement character U+FFFD.
HighSurrogate == "U+D800"
LowSurrogate == "U+DC00"
CodeUnits == {"a", "U+00E9", HighSurrogate, LowSurrogate, "U+FFFD"}

ReplacementBytes == <<"EF", "BF", "BD">>
NonAsciiBytes == {"C3", "A9", "EF", "BF", "BD", "F0", "90", "80"}

StartsWith(s, prefix) ==
    Len(s) >= Len(prefix) /\ SubSeq(s, 1, Len(prefix)) = prefix

Drop(s, n) == SubSeq(s, n + 1, Len(s))

\* Buffer.from(message, 'utf8'): a surrogate that is not half of a pair is
\* written as the bytes of U+FFFD
RECURSIVE BufferFromUtf8(_)
BufferFromUtf8(message) ==
    IF message = <<>> THEN <<>>
    ELSE IF StartsWith(message, <<HighSurrogate, LowSurrogate>>)
         THEN <<"F0", "90", "80", "80">> \o BufferFromUtf8(Drop(message, 2))
    ELSE IF message[1] \in {HighSurrogate, LowSurrogate, "U+FFFD"}
         THEN ReplacementBytes \o BufferFromUtf8(Tail(message))
    ELSE IF message[1] = "U+00E9"
         THEN <<"C3", "A9">> \o BufferFromUtf8(Tail(message))
    ELSE <<message[1]>> \o BufferFromUtf8(Tail(message))

\* A toString that takes every byte for a character of its own
toStringUtf8_Latin1(bytes) == bytes

\* buffer.toString('utf8'): bytes that are no UTF-8 sequence become U+FFFD
RECURSIVE toStringUtf8(_)
toStringUtf8(bytes) ==
    IF bytes = <<>> THEN <<>>
    ELSE IF StartsWith(bytes, <<"F0", "90", "80", "80">>)
         THEN <<HighSurrogate, LowSurrogate>> \o toStringUtf8(Drop(bytes, 4))
    ELSE IF StartsWith(bytes, ReplacementBytes)
         THEN <<"U+FFFD">> \o toStringUtf8(Drop(bytes, 3))
    ELSE IF StartsWith(bytes, <<"C3", "A9">>)
         THEN <<"U+00E9">> \o toStringUtf8(Drop(bytes, 2))
    ELSE IF bytes[1] \in NonAsciiBytes
         THEN <<"U+FFFD">> \o toStringUtf8(Tail(bytes))
    ELSE <<bytes[1]>> \o toStringUtf8(Tail(bytes))

\* The base64 text of a sealed box: the bytes pt sealed to the public key
\* `to`; damaged is a ciphertext corrupted on the way.
SealedBox(pt, to, damaged) == <<"sealed", pt, to, damaged>>

\* sodium.crypto_box_seal
crypto_box_seal(messageBytes, pub) == SealedBox(messageBytes, pub, <<"intact">>)

\* A crypto_box_seal_open that does not authenticate the ciphertext
crypto_box_seal_open_Unauthenticated(box, pub, priv) ==
    IF Len(box) = 4 /\ box[1] = "sealed" THEN box[2] ELSE Null

\* sodium.crypto_box_seal_open: the plaintext, or Null for the exception
crypto_box_seal_open(box, pub, priv) ==
    IF Len(box) = 4 /\ box[1] = "sealed" /\ box[4] = <<"intact">>
       /\ box[3] = pub /\ KeysMatch(pub, priv)
    THEN box[2] ELSE Null

\* KeypairService.decryptSealedBox: plaintext or Null
decryptSealedBox(kc, sealedB64) ==
    IF ~Truthy(kc[ACCOUNT_PUBLIC]) \/ ~Truthy(kc[ACCOUNT_PRIVATE]) THEN Null
    ELSE LET opened == crypto_box_seal_open(sealedB64, kc[ACCOUNT_PUBLIC],
                                            kc[ACCOUNT_PRIVATE])
         IN IF opened = Null THEN Null ELSE toStringUtf8(opened)

\* KeypairService.encryptSealedBox: the base64 text of the box, or Null for
\* the Error 'No public key available'
encryptSealedBox(kc, message, publicKeyB64) ==
    LET publicKey == IF ~Truthy(publicKeyB64) THEN kc[ACCOUNT_PUBLIC] ELSE publicKeyB64
    IN IF ~Truthy(publicKey) THEN Null
       ELSE crypto_box_seal(BufferFromUtf8(message), publicKey)

\* ipc "keypair-decrypt-sealed": {success, plaintext}
KeypairDecryptSealed(kc, sealedB64) ==
    IF ~Truthy(sealedB64) THEN [success |-> FALSE, plaintext |-> Null]
    ELSE LET plaintext == decryptSealedBox(kc, sealedB64)
         IN IF ~Truthy(plaintext) THEN [success |-> FALSE, plaintext |-> Null]
            ELSE [success |-> TRUE, plaintext |-> plaintext]

----------------------------------------------------------------------------
(* Configuration store *)

\* The keys of the set-config call of handleConnectSecure, in order: the
\* ServerLinkage and the onboarding flag (the seven switches after them
\* carry constants and are left out).
SetConfigKeys == <<"server_id", "server_address", "webhook_id", "tutorial_is_done">>

ConfigKeys == {SetConfigKeys[i] : i \in 1..Len(SetConfigKeys)} \cup {"password", "webhook_secret"}

\* handleConnectSecure: the https:// prefix put in front of configData.host
ServerAddressOf(host) ==
    IF host # Null /\ Len(host) > 0 /\ host[1] \in {"http://", "https://"} THEN host
    ELSE <<"https://">> \o host

SetConfigArgs(cd) ==
    << <<"server_id", cd.server_id>>,
       <<"server_address", ServerAddressOf(cd.host)>>,
       <<"webhook_id", cd.webhook_id>>,
       <<"tutorial_is_done", True>> >>

----------------------------------------------------------------------------
(* ProvisionTokenScreen: state of one handleConnectSecure invocation *)

NoConfigData ==
    [host |-> Null, server_id |-> Null, webhook_id |-> Null,
     sealed_password_b64 |-> Null, sealed_tunnel_token_b64 |-> Null,
     sealed_webhook_secret_b64 |-> Null]

NoLocals ==
    [publicKey |-> Null, deviceId |-> Null, configData |-> NoConfigData,
     serverPassword |-> Null, tunnelToken |-> Null, webhookSecret |-> Null]

\* exchange, install, ...: the outcome of the step ("none" before it);
\* wrote: the Keychain accounts and configuration keys the invocation wrote;
\* installedWith: the tunnel tokens handed to the installer;
\* installCalls, pausedClicks: while the invocation is in step 4, the calls
\* of the installer so far and the clicks on Connect while it was paused.
NoTrace ==
    [exchange |-> "none", decryptCalls |-> 0, decryptFailed |-> FALSE,
     installCalls |-> 0, install |-> "none", installedWith |-> {}, pausedClicks |-> 0,
     store |-> "none", wrote |-> {}, register |-> "none", webhook |-> "none",
     setConfig |-> "none", getConfig |-> "none", end |-> "none"]

\* The observations of an invocation that ended are dropped when the next
\* one starts
Forgotten == [NoTrace EXCEPT !.end = "forgotten"]

\* The texts the user can have in the token field
Tokens == {<<>>, <<"t", "k">>}

\* String.prototype.trim over the symbols of the model
IsSpace(c) == c = " "

RECURSIVE TrimLeft(_)
TrimLeft(s) == IF Len(s) > 0 /\ IsSpace(Head(s)) THEN TrimLeft(Tail(s)) ELSE s

RECURSIVE TrimRight(_)
TrimRight(s) ==
    IF Len(s) > 0 /\ IsSpace(s[Len(s)]) THEN TrimRight(SubSeq(s, 1, Len(s) - 1)) ELSE s

trim(s) == TrimRight(TrimLeft(s))

\* The <Button> elements ProvisionTokenScreen renders, with the type
\* attribute the source gives each of them
DomButtons ==
    {[label |-> "Paste from clipboard", type |-> "none"],
     [label |-> "Back", type |-> "none"],
     [label |-> "Connect", type |-> "none"]}

\* document.querySelector('button[type="submit"]')
QuerySubmitButton == {b \in DomButtons : b.type = "submit"}

\* isDisabled of the Connect button
ConnectDisabled == ~Truthy(trim(provisionToken)) \/ isConnecting

\* An invocation between a cancelled administrator prompt and the next
\* call of the installer
Paused(a) == pc[a] \in {"wait-click", "wait-timer", "retry"}

----------------------------------------------------------------------------
(* Outcomes of the IPC calls, as handleConnectSecure tests them *)

\* if (!exchangeResponse.success) throw
ExchangeFailed(res) == ~res.success

\* A flow that goes on after a sealed field did not open
DecryptFailed_Ignored(res) == FALSE

\* if (!decrypt...Result.success) throw
DecryptFailed(res) == ~res.success

\* while (!installResult.success && installResult.cancelled)
InstallCancelled(res) == ~res.success /\ res.cancelled

\* A flow that goes on after the installer failed
InstallFailed_Ignored(res) == FALSE

\* if (!installResult.success) throw
InstallFailed(res) == ~res.success

\* A flow that goes on when a secret could not be stored
StoreFailed_Ignored(res) == FALSE

\* if (!store...Result.success) throw
StoreFailed(res) == ~res.success

\* A flow that throws when the registration is refused
RegisterFatal_Throws(res) == ~res.success

\* if (!confirmResponse.success) console.warn: the flow goes on
RegisterFatal(res) == FALSE

\* catch (error) console.warn around create-webhook: the flow goes on
WebhookFatal(threw) == FALSE

\* The record of an invocation that had ended before this step is dropped:
\* what an invocation did is on record in the state in which it ends
Settle(tr) ==
    [b \in Attempts |-> IF pc[b] \in {"failed", "complete"} THEN Forgotten ELSE tr[b]]

\* catch (err) setError(...) finally setIsConnecting(false); the locals of
\* the invocation are gone with it
Throw(a, tr) ==
    /\ pc' = [pc EXCEPT ![a] = "failed"]
    /\ loc' = [loc EXCEPT ![a] = NoLocals]
    /\ trace' = Settle([trace EXCEPT ![a] = [tr EXCEPT !.end = "failed"]])
    /\ isConnecting' = FALSE

\* The invocation goes on to its next await
Goto(a, next, locals, tr) ==
    /\ pc' = [pc EXCEPT ![a] = next]
    /\ loc' = [loc EXCEPT ![a] = locals]
    /\ trace' = Settle([trace EXCEPT ![a] = tr])
    /\ UNCHANGED isConnecting

----------------------------------------------------------------------------
(* ProvisionTokenScreen: the user *)

\* onChange of the token <Input>, and handlePaste (the user is taken to
\* leave the field alone once the first invocation has started)
SetProvisionToken(t) ==
    /\ currentStep = "provisionToken"
    /\ started = 0
    /\ t # provisionToken
    /\ provisionToken' = t
    /\ UNCHANGED <<keychain, config, webhooks, isConnecting, currentStep, started,
                   pc, loc, trace, authVars, dispVars, hbVars, idVars>>

\* A click on Connect: the click listeners of paused invocations run, then
\* onClick = handleConnect runs handleConnectSecure up to its first await.
ClickConnect ==
    /\ currentStep = "provisionToken"
    /\ ~ConnectDisabled
    /\ started < MaxAttempts
    /\ LET a == started + 1 IN
        /\ started' = a
        /\ pc' = [b \in Attempts |->
                    IF b = a THEN "keypair-generate"
                    ELSE IF pc[b] = "wait-click" THEN "retry" ELSE pc[b]]
        /\ loc' = [loc EXCEPT ![a] = NoLocals]
        /\ trace' = [b \in Attempts |->
                       IF Paused(b) THEN [trace[b] EXCEPT !.pausedClicks = @ + 1]
                       ELSE IF pc[b] \in {"failed", "complete"} THEN Forgotten
                       ELSE trace[b]]
        /\ isConnecting' = TRUE
    /\ UNCHANGED <<keychain, config, webhooks, provisionToken, currentStep, authVars, dispVars, hbVars, idVars>>

----------------------------------------------------------------------------
(* handleConnectSecure, one action for each await: the IPC handler runs in  *)
(* the main process, then the invocation continues up to its next await.    *)
(* The keypair an invocation generates and the secrets the control plane    *)
(* issues to it are named after the invocation.                             *)

\* KeypairService.ensureKeypair: the result and the Keychain after it; threw
\* is keytar failing, after `written` of the three setPassword calls.
ensureKeypair(kc, g, threw, written) ==
    LET deviceId == IF Truthy(kc[ACCOUNT_DEVICE_ID]) THEN kc[ACCOUNT_DEVICE_ID]
                    ELSE DeviceIdOf(g)
    IN IF HasIdentity(kc)
       THEN [success |-> ~threw, publicKey |-> kc[ACCOUNT_PUBLIC],
             deviceId |-> kc[ACCOUNT_DEVICE_ID], isNew |-> FALSE, keychain |-> kc]
       ELSE [success |-> ~threw, publicKey |-> PublicKeyOf(g),
             deviceId |-> deviceId, isNew |-> TRUE,
             keychain |-> ApplyWrites(kc, KeypairWrites(g, deviceId),
                                      IF threw THEN written ELSE 3)]

\* 1. ipc "keypair-generate"
KeypairGenerate(a) ==
    /\ pc[a] = "keypair-generate"
    /\ \E threw \in BOOLEAN, written \in 0..2 :
        LET res == ensureKeypair(keychain, a, threw, written) IN
        /\ (HasIdentity(keychain) \/ ~threw) => written = 0
        /\ keychain' = res.keychain
        /\ IF ~res.success
           THEN Throw(a, trace[a])
           ELSE Goto(a, "exchange-provision-token",
                     [loc[a] EXCEPT !.publicKey = res.publicKey, !.deviceId = res.deviceId],
                     trace[a])
    /\ UNCHANGED <<config, webhooks, provisionToken, currentStep, started, authVars, dispVars, hbVars, idVars>>

\* What the control plane answers to the token of invocation e: the linkage
\* and the three secrets, each sealed to the submitted public key
ExchangeData(e, pubkey, f1, f2, f3) ==
    [host |-> HostOf(e), server_id |-> ServerIdOf(e), webhook_id |-> WebhookIdOf(e),
     sealed_password_b64 |-> SealedBox(PasswordOf(e), pubkey, f1),
     sealed_tunnel_token_b64 |-> SealedBox(TunnelTokenOf(e), pubkey, f2),
     sealed_webhook_secret_b64 |-> SealedBox(WebhookSecretOf(e), pubkey, f3)]

\* The first sealed field that does not open decides what follows: the
\* control plane damages none, or field 1, 2 or 3.
Damaged == 0..3

BoxState(field, damaged) == IF field = damaged THEN <<"damaged">> ELSE <<"intact">>

\* 2. ipc "exchange-provision-token"
ExchangeProvisionToken(a) ==
    /\ pc[a] = "exchange-provision-token"
    /\ \E ok \in BOOLEAN, damaged \in Damaged :
        LET res == [success |-> ok,
                    data |-> IF ok THEN ExchangeData(a, loc[a].publicKey,
                                                     BoxState(1, damaged), BoxState(2, damaged),
                                                     BoxState(3, damaged))
                             ELSE NoConfigData]
            tr == [trace[a] EXCEPT !.exchange = IF ok THEN "ok" ELSE "failed"]
        IN
        /\ ~ok => damaged = 0
        /\ IF ExchangeFailed(res)
           THEN Throw(a, tr)
           ELSE Goto(a, "decrypt-password", [loc[a] EXCEPT !.configData = res.data], tr)
    /\ UNCHANGED <<keychain, config, webhooks, provisionToken, currentStep, started, authVars, dispVars, hbVars, idVars>>

\* 3. ipc "keypair-decrypt-sealed", three times
Decrypt(a, at, sealed, target, next) ==
    /\ pc[a] = at
    /\ LET res == KeypairDecryptSealed(keychain, sealed)
           tr == [trace[a] EXCEPT !.decryptCalls = @ + 1,
                                  !.decryptFailed = @ \/ ~res.success]
       IN IF DecryptFailed(res)
          THEN Throw(a, tr)
          ELSE Goto(a, next, [loc[a] EXCEPT ![target] = res.plaintext], tr)
    /\ UNCHANGED <<keychain, config, webhooks, provisionToken, currentStep, started, authVars, dispVars, hbVars, idVars>>

DecryptPassword(a) ==
    Decrypt(a, "decrypt-password", loc[a].configData.sealed_password_b64,
            "serverPassword", "decrypt-tunnel-token")

DecryptTunnelToken(a) ==
    Decrypt(a, "decrypt-tunnel-token", loc[a].configData.sealed_tunnel_token_b64,
            "tunnelToken", "decrypt-webhook-secret")

DecryptWebhookSecret(a) ==
    Decrypt(a, "decrypt-webhook-secret", loc[a].configData.sealed_webhook_secret_b64,
            "webhookSecret", "install-cloudflared-service")

\* What the install script and the administrator prompt can come to
InstallOutcomes == {"success", "failure", "cancelled"}

\* ipc "install-cloudflared-service": {success, cancelled}
InstallCloudflaredResult(tunnelToken, outcome) ==
    IF ~Truthy(tunnelToken) THEN [success |-> FALSE, cancelled |-> FALSE]
    ELSE [success |-> outcome = "success", cancelled |-> outcome = "cancelled"]

\* 4. ipc "install-cloudflared-service": the first call and the calls of the
\* while loop; a cancelled prompt leaves the invocation waiting for the click
\* listener on the submit button or, without such a button, for a 1 s timer.
InstallCloudflaredService(a) ==
    /\ pc[a] = "install-cloudflared-service"
    /\ \E outcome \in InstallOutcomes :
        LET res == InstallCloudflaredResult(loc[a].tunnelToken, outcome)
            tr == [trace[a] EXCEPT !.installCalls = @ + 1,
                                   !.installedWith = @ \cup {loc[a].tunnelToken},
                                   !.install = IF res.success THEN "success"
                                               ELSE IF res.cancelled THEN "cancelled"
                                               ELSE "failure"]
            left == [tr EXCEPT !.installCalls = 0, !.pausedClicks = 0]
        IN
        /\ outcome = "cancelled" => trace[a].installCalls + 1 < MaxInstalls
        /\ IF InstallCancelled(res)
           THEN /\ pc' = [pc EXCEPT ![a] = IF QuerySubmitButton # {} THEN "wait-click"
                                           ELSE "wait-timer"]
                /\ trace' = Settle([trace EXCEPT ![a] = tr])
                /\ isConnecting' = FALSE
                /\ UNCHANGED loc
           ELSE IF InstallFailed(res)
           THEN Throw(a, left)
           ELSE Goto(a, "store-server-password", loc[a], left)
    /\ UNCHANGED <<keychain, config, webhooks, provisionToken, currentStep, started, authVars, dispVars, hbVars, idVars>>

\* The promise of the while loop resolves (the timer fires, or the click
\* listener has run) and the installer is invoked again.
RetryInstall(a) ==
    /\ pc[a] \in {"wait-timer", "retry"}
    /\ pc' = [pc EXCEPT ![a] = "install-cloudflared-service"]
    /\ isConnecting' = TRUE
    /\ trace' = Settle(trace)
    /\ UNCHANGED <<keychain, config, webhooks, provisionToken, currentStep, started,
                   loc, authVars, dispVars, hbVars, idVars>>

\* ipc "store-server-password" / "store-webhook-secret": {success}, and the
\* Keychain after it; threw is keytar failing.
StoreSecretResult(kc, account, value, threw) ==
    IF ~Truthy(value) THEN [success |-> FALSE, keychain |-> kc]
    ELSE IF threw THEN [success |-> FALSE, keychain |-> kc]
    ELSE [success |-> TRUE, keychain |-> setPassword(kc, account, value)]

Store(a, at, account, value, next) ==
    /\ pc[a] = at
    /\ \E threw \in BOOLEAN :
        LET res == StoreSecretResult(keychain, account, value, threw)
            tr == [trace[a] EXCEPT !.store = IF ~res.success THEN "failed"
                                             ELSE IF next = "register-server-device" THEN "ok"
                                             ELSE @,
                                   !.wrote = IF res.success THEN @ \cup {account} ELSE @]
        IN
        /\ keychain' = res.keychain
        /\ IF StoreFailed(res)
           THEN Throw(a, tr)
           ELSE Goto(a, next, loc[a], tr)
    /\ UNCHANGED <<config, webhooks, provisionToken, currentStep, started, authVars, dispVars, hbVars, idVars>>

\* 5. ipc "store-server-password"
StoreServerPassword(a) ==
    Store(a, "store-server-password", ACCOUNT_SERVER_PASSWORD, loc[a].serverPassword,
          "store-webhook-secret")

\* A flow that stores the tunnel token as the webhook secret
StoreWebhookSecret_TunnelToken(a) ==
    Store(a, "store-webhook-secret", ACCOUNT_WEBHOOK_SECRET, loc[a].tunnelToken,
          "register-server-device")

\* 5. ipc "store-webhook-secret"
StoreWebhookSecret(a) ==
    Store(a, "store-webhook-secret", ACCOUNT_WEBHOOK_SECRET, loc[a].webhookSecret,
          "register-server-device")

\* ipc "register-server-device": {success}; accepted is the control plane's answer
RegisterServerDeviceResult(serverPassword, pubkey, deviceId, accepted) ==
    IF ~Truthy(serverPassword) \/ ~Truthy(pubkey) \/ ~Truthy(deviceId)
    THEN [success |-> FALSE]
    ELSE [success |-> accepted]

\* 6. ipc "register-server-device"
RegisterServerDevice(a) ==
    /\ pc[a] = "register-server-device"
    /\ \E accepted \in BOOLEAN :
        LET res == RegisterServerDeviceResult(loc[a].serverPassword, loc[a].publicKey,
                                              loc[a].deviceId, accepted)
            tr == [trace[a] EXCEPT !.register = IF res.success THEN "ok" ELSE "failed"]
        IN IF ~res.success /\ RegisterFatal(res)
           THEN Throw(a, tr)
           ELSE Goto(a, "create-webhook", loc[a], tr)
    /\ UNCHANGED <<keychain, config, webhooks, provisionToken, currentStep, started, authVars, dispVars, hbVars, idVars>>

\* JSON.stringify of an array of texts, as tokens: [ item , item ]
RECURSIVE JoinItems(_)
JoinItems(items) ==
    IF items = <<>> THEN <<>>
    ELSE IF Len(items) = 1 THEN <<items[1]>>
    ELSE <<items[1], ",">> \o JoinItems(Tail(items))

JSONStringifyArray(items) == <<"[">> \o JoinItems(items) \o <<"]">>

\* Server().repo.addWebhook(url, events): a new row, its events column the
\* JSON text of the values of the events
addWebhook(rows, url, eventValues) ==
    Append(rows, [url |-> url, events |-> JSONStringifyArray(eventValues)])

WebhookUrl(webhookId) == <<"https://.../api/webhook/relay/">> \o webhookId

\* 7. ipc "create-webhook": the handler rethrows what addWebhook throws
CreateWebhook(a) ==
    /\ pc[a] = "create-webhook"
    /\ \E threw \in BOOLEAN :
        LET tr == [trace[a] EXCEPT !.webhook = IF threw THEN "failed" ELSE "ok"] IN
        /\ webhooks' = IF threw THEN webhooks
                       ELSE addWebhook(webhooks, WebhookUrl(loc[a].configData.webhook_id),
                                       <<"*">>)
        /\ IF threw /\ WebhookFatal(threw)
           THEN Throw(a, tr)
           ELSE Goto(a, "set-config", loc[a], tr)
    /\ UNCHANGED <<keychain, config, provisionToken, currentStep, started, authVars, dispVars, hbVars, idVars>>

\* helpers/utils fixServerUrl, applied to args.server_address by set-config
fixServerUrl(value) ==
    IF Len(value) > 0 /\ value[1] \in {"http://", "https://"} THEN value
    ELSE <<"http://">> \o value

\* ipc "set-config": the loop over Object.keys(args) sets the keys in
\* order; what a setConfig throws, after `written` keys, rejects the invoke.
SetConfigResult(cfg, args, threw, written) ==
    LET fixed == [i \in 1..Len(args) |->
                    IF args[i][1] = "server_address"
                    THEN <<args[i][1], fixServerUrl(args[i][2])>> ELSE args[i]]
        n == IF threw THEN written ELSE Len(args)
    IN [success |-> ~threw,
        config |-> ApplyWrites(cfg, fixed, n),
        keys |-> {fixed[i][1] : i \in 1..n}]

\* 8. ipc "set-config"
SetConfig(a) ==
    /\ pc[a] = "set-config"
    /\ \E threw \in BOOLEAN, written \in 0..(Len(SetConfigKeys) - 1) :
        LET res == SetConfigResult(config, SetConfigArgs(loc[a].configData), threw, written)
            tr == [trace[a] EXCEPT !.wrote = @ \cup res.keys,
                                   !.setConfig = IF res.success THEN "ok" ELSE "failed"]
        IN
        /\ ~threw => written = 0
        /\ config' = res.config
        /\ IF ~res.success
           THEN Throw(a, tr)
           ELSE Goto(a, "get-config", loc[a], tr)
    /\ UNCHANGED <<keychain, webhooks, provisionToken, currentStep, started, authVars, dispVars, hbVars, idVars>>

\* ipc "get-config", then onConnect -> setCurrentStep('connected')
GetConfig(a) ==
    /\ pc[a] = "get-config"
    /\ \E threw \in BOOLEAN :
        IF threw
        THEN /\ Throw(a, [trace[a] EXCEPT !.getConfig = "failed"])
             /\ UNCHANGED currentStep
        ELSE /\ pc' = [pc EXCEPT ![a] = "complete"]
             /\ loc' = [loc EXCEPT ![a] = NoLocals]
             /\ trace' = Settle([trace EXCEPT ![a].getConfig = "ok", ![a].end = "complete"])
             /\ currentStep' = "connected"
             /\ isConnecting' = FALSE
    /\ UNCHANGED <<keychain, config, webhooks, provisionToken, started, authVars, dispVars, hbVars, idVars>>

----------------------------------------------------------------------------
(* The provisioning flow *)

NoRequest == [header |-> Null, guid |-> Null, password |-> Null, token |-> Null,
              keytarThrows |-> FALSE]

\* The dispatcher before dispatch is called, the heartbeat service as
\* constructed (intervalId null is 0)
NoDispatch == [pc |-> "idle", type |-> "none"]

NoBody == [type |-> "undefined", text |-> <<>>, message |-> Null, error |-> Null,
           detail |-> Null]

NoSettled == [hook |-> 0, ok |-> FALSE, hasResponse |-> FALSE, data |-> NoBody,
              emitted |-> <<>>]

DispatcherIdle ==
    /\ dispatched = NoDispatch
    /\ deliveries = <<>>
    /\ signals = {}
    /\ settled = NoSettled

\* The fields of a HeartbeatService as its declaration initializes them;
\* intervalId 0 is null
Constructed == [isRunning |-> FALSE, intervalId |-> 0, startTime |-> 0]

\* No call of start or stop and no tick yet
NoCall == [op |-> "none", noop |-> FALSE, tutorialDone |-> Null,
           metrics |-> "none", service |-> "none", dispatches |-> 0]

HeartbeatIdle ==
    /\ heartbeat = Constructed
    /\ timers = {}
    /\ now = 0
    /\ hbLast = NoCall

\* A call of ensureKeypair that has not begun
NoEnsure == [pc |-> "idle", existingPrivate |-> Null, existingPublic |-> Null,
             deviceId |-> Null, publicKey |-> Null, privateKey |-> Null,
             isNew |-> FALSE]

\* No clear yet: `full` is whether the store held every account before the
\* last one, `after` what the call of ensureKeypair that returned last since
\* then did, `first` the identity whose three writes were completed first
\* since the last clear of the identity
NoOperation == [op |-> "none", ok |-> FALSE, full |-> FALSE, after |-> "none",
                first |-> [publicKey |-> Null, deviceId |-> Null]]

\* No sealed box yet
NoBox == [message |-> Null, to |-> Null, sealedB64 |-> Null, opened |-> "none",
          plaintext |-> Null, success |-> FALSE]

IdentityIdle ==
    /\ ensureCalls = [c \in Calls |-> NoEnsure]
    /\ idLog = NoOperation
    /\ codec = NoBox

\* A first run: keytar finds none of the accounts in the Keychain
EmptyKeychain == [k \in Accounts |-> Null]

Init ==
    /\ keychain = EmptyKeychain
    /\ config = [k \in ConfigKeys |-> Null]
    /\ webhooks = <<>>
    /\ provisionToken = <<>>
    /\ isConnecting = FALSE
    /\ currentStep = "provisionToken"
    /\ started = 0
    /\ pc = [a \in Attempts |-> "idle"]
    /\ loc = [a \in Attempts |-> NoLocals]
    /\ trace = [a \in Attempts |-> NoTrace]
    /\ authReq = NoRequest
    /\ authOutcome = "none"
    /\ nextCalls = 0
    /\ DispatcherIdle
    /\ HeartbeatIdle
    /\ IdentityIdle

Next ==
    \/ \E t \in Tokens : SetProvisionToken(t)
    \/ ClickConnect
    \/ \E a \in Attempts : KeypairGenerate(a)
    \/ \E a \in Attempts : ExchangeProvisionToken(a)
    \/ \E a \in Attempts : DecryptPassword(a)
    \/ \E a \in Attempts : DecryptTunnelToken(a)
    \/ \E a \in Attempts : DecryptWebhookSecret(a)
    \/ \E a \in Attempts : InstallCloudflaredService(a)
    \/ \E a \in Attempts : RetryInstall(a)
    \/ \E a \in Attempts : StoreServerPassword(a)
    \/ \E a \in Attempts : StoreWebhookSecret(a)
    \/ \E a \in Attempts : RegisterServerDevice(a)
    \/ \E a \in Attempts : CreateWebhook(a)
    \/ \E a \in Attempts : SetConfig(a)
    \/ \E a \in Attempts : GetConfig(a)

Spec == Init /\ [][Next]_vars

----------------------------------------------------------------------------
(* Auth Gate: the Koa AuthMiddleware *)

MaxPwdLen == 2      \* length of the stored passwords
MaxTokLen == 2      \* length of the token in the Authorization header

\* All texts of at most n symbols over the alphabet
Str(alphabet, n) == UNION {[1..k -> alphabet] : k \in 0..n}

Passwords == Str({"a", " "}, MaxPwdLen)

\* What keytar can hold for server_password: storeServerPassword refuses ""
KeychainPasswords == {Null} \cup (Passwords \ {<<>>})

\* What the configuration table can hold for "password": no row, or a text
ConfigPasswords == {Null} \cup Passwords

\* Authorization header values as Node hands them over (the parser strips
\* the blanks around a header value): none, empty, or a scheme word, an
\* optional blank and the rest
HeaderTokens == Str({"a", " "}, MaxTokLen) \cup {<<"null">>}

Headers ==
    {Null, <<>>} \cup
    {<<scheme>> \o sep \o rest :
        scheme \in {"Bearer", "Basic"}, sep \in {<<>>, <<" ">>}, rest \in HeaderTokens}

\* A query parameter: absent, empty, or a text
QueryParams == {Null, <<>>, <<"a">>}

Requests ==
    [header : Headers, guid : QueryParams, password : QueryParams, token : QueryParams,
     keytarThrows : BOOLEAN]

RECURSIVE SkipSpaces(_, _)
SkipSpaces(s, i) == IF i <= Len(s) /\ IsSpace(s[i]) THEN SkipSpaces(s, i + 1) ELSE i

\* authHeader.match(/^\s*Bearer\s+(.*)$/i)?.[1]: the captured group, or Null
\* when the header does not match
BearerGroup(authHeader) ==
    LET i == SkipSpaces(authHeader, 1)
        j == SkipSpaces(authHeader, i + 1)
    IN IF i <= Len(authHeader) /\ authHeader[i] \in {"Bearer", "bearer", "BEARER"}
          /\ j > i + 1
       THEN SubSeq(authHeader, j, Len(authHeader))
       ELSE Null

\* A fallback that looks at the parameters in the opposite order
Coalesce_Reversed(a, b, c) == IF c # Null THEN c ELSE IF b # Null THEN b ELSE a

\* a ?? b ?? c
Coalesce(a, b, c) == IF a # Null THEN a ELSE IF b # Null THEN b ELSE c

\* The candidate token of a request whose headers.authorization is a text
CandidateToken(req) ==
    LET group == BearerGroup(req.header)
    IN IF Truthy(group) THEN group ELSE Coalesce(req.guid, req.password, req.token)

\* String(value)
String(value) == IF value = Null THEN <<"null">> ELSE value

\* helpers/utils safeTrim
safeTrim(value) == IF value = Null THEN <<>> ELSE trim(value)

\* The password AuthMiddleware compares with: the Keychain one, else the
\* "password" row of the configuration table passed through String()
CanonicalPassword(req, kc, cfg) ==
    LET fromKeychain == IF req.keytarThrows THEN Null ELSE kc[ACCOUNT_SERVER_PASSWORD]
    IN IF Truthy(fromKeychain) THEN fromKeychain ELSE String(cfg["password"])

\* if (safeTrim(password) !== safeTrim(token)) throw new Unauthorized()
PasswordMismatch(password, token) == safeTrim(password) # safeTrim(token)

\* AuthMiddleware: what the request ends with, "next" being await next()
AuthMiddleware(req, kc, cfg) ==
    IF req.header = Null THEN "TypeError"
    ELSE LET token == CandidateToken(req)
             password == CanonicalPassword(req, kc, cfg)
         IN IF ~Truthy(token) THEN "Unauthorized: Missing server password!"
            ELSE IF ~Truthy(password) THEN "ServerError"
            ELSE IF PasswordMismatch(password, token) THEN "Unauthorized"
            ELSE "next"

\* One request arrives at a protected route
HandleRequest(req) ==
    /\ authOutcome = "none"
    /\ authReq' = req
    /\ authOutcome' = AuthMiddleware(req, keychain, config)
    /\ nextCalls' = IF AuthMiddleware(req, keychain, config) = "next" THEN 1 ELSE 0
    /\ UNCHANGED <<provVars, dispVars, hbVars, idVars>>

InitAuth ==
    /\ \E kp \in KeychainPasswords :
         keychain = [k \in Accounts |-> IF k = ACCOUNT_SERVER_PASSWORD THEN kp ELSE Null]
    /\ \E cp \in ConfigPasswords :
         config = [k \in ConfigKeys |-> IF k = "password" THEN cp ELSE Null]
    /\ webhooks = <<>>
    /\ provisionToken = <<>>
    /\ isConnecting = FALSE
    /\ currentStep = "provisionToken"
    /\ started = 0
    /\ pc = [a \in Attempts |-> "idle"]
    /\ loc = [a \in Attempts |-> NoLocals]
    /\ trace = [a \in Attempts |-> NoTrace]
    /\ authReq = NoRequest
    /\ authOutcome = "none"
    /\ nextCalls = 0
    /\ DispatcherIdle
    /\ HeartbeatIdle
    /\ IdentityIdle

NextAuth == \E req \in Requests : HandleRequest(req)

SpecAuth == InitAuth /\ [][NextAuth]_vars

----------------------------------------------------------------------------
(* Webhook Dispatcher: WebhookService.dispatch and sendPost *)

MaxHooks == 2       \* rows of the webhooks table

EventTypes == {"heartbeat", "message.sent"}

\* Texts of the events column: JSON arrays, and a text JSON.parse rejects
StoredEvents ==
    {JSONStringifyArray(items) :
        items \in {<<>>, <<"*">>, <<"heartbeat">>, <<"message.sent">>,
                   <<"message.received", "heartbeat">>}}
    \cup {<<"[", "*">>}

WebhookTables ==
    UNION {[1..n -> [url : {<<"u">>}, events : StoredEvents]] : n \in 0..MaxHooks}

\* JSON.parse of the text of an array of texts: the array, or a SyntaxError
JSONParseArray(text) ==
    LET n == Len(text)
        inner == IF n >= 2 THEN SubSeq(text, 2, n - 1) ELSE <<>>
        m == Len(inner)
        wellFormed ==
            /\ n >= 2 /\ text[1] = "[" /\ text[n] = "]"
            /\ (m = 0 \/ m % 2 = 1)
            /\ \A k \in 1..m : IF k % 2 = 1 THEN inner[k] \notin {"[", "]", ","}
                               ELSE inner[k] = ","
    IN IF wellFormed
       THEN [ok |-> TRUE, value |-> [k \in 1..((m + 1) \div 2) |-> inner[2 * k - 1]]]
       ELSE [ok |-> FALSE, value |-> <<>>]

\* Array.prototype.includes / String.prototype.includes for one word
includes(seq, x) == \E k \in 1..Len(seq) : seq[k] = x

\* if (!eventTypes.includes("*") && !eventTypes.includes(event.type)) continue
PassesFilter(eventTypes, type) == includes(eventTypes, "*") \/ includes(eventTypes, type)

\* The for loop of dispatch from row i on: the rows sendPost is called for,
\* and whether JSON.parse threw (which ends the loop and rejects dispatch)
RECURSIVE DispatchLoop(_, _, _, _)
DispatchLoop(rows, type, i, called) ==
    IF i > Len(rows) THEN [threw |-> FALSE, called |-> called]
    ELSE LET parsed == JSONParseArray(rows[i].events) IN
         IF ~parsed.ok THEN [threw |-> TRUE, called |-> called]
         ELSE DispatchLoop(rows, type, i + 1,
                           IF PassesFilter(parsed.value, type) THEN called \cup {i}
                           ELSE called)

\* dispatch(event): getWebhooks, then the loop, which awaits nothing
DispatchCall(type) ==
    LET loop == DispatchLoop(webhooks, type, 1, {}) IN
        /\ dispatched' = [pc |-> IF loop.threw THEN "rejected" ELSE "resolved",
                          type |-> type]
        /\ deliveries' = [i \in 1..Len(webhooks) |->
                            [status |-> IF i \in loop.called THEN "called" ELSE "none",
                             posts |-> 0, header |-> Null]]

\* One event handed to the dispatcher
Dispatch(type) ==
    /\ dispatched.pc = "idle"
    /\ DispatchCall(type)
    /\ UNCHANGED <<provVars, authVars, signals, settled, hbVars, idVars>>

\* sendPost: the X-Webhook-Secret header, from the Keychain secret or else
\* the webhook_secret of the configuration; no header without a secret
SignatureHeader(kc, cfg, keytarThrows) ==
    LET fromKeychain == IF keytarThrows THEN Null ELSE kc[ACCOUNT_WEBHOOK_SECRET]
        webhookSecret == IF Truthy(fromKeychain) THEN fromKeychain
                         ELSE cfg["webhook_secret"]
    IN IF Truthy(webhookSecret) THEN <<"Bearer", " ">> \o webhookSecret ELSE Null

\* sendPost(i.url, event) up to axios.post: the request is sent
SendPost(i) ==
    /\ i \in 1..Len(deliveries)
    /\ deliveries[i].status = "called"
    /\ \E keytarThrows \in BOOLEAN :
        deliveries' = [deliveries EXCEPT ![i] =
                          [status |-> "posted", posts |-> @.posts + 1,
                           header |-> SignatureHeader(keychain, config, keytarThrows)]]
    /\ UNCHANGED <<provVars, authVars, dispatched, signals, settled, hbVars, idVars>>

\* The marker of a deleted relay, in the letter cases a body can carry it
Marker == "could not get relay server"
MarkerMixed == "Could Not Get Relay Server"
MarkerUpper == "COULD NOT GET RELAY SERVER"

\* String.prototype.toLowerCase, word by word
LowerWord(w) ==
    CASE w \in {MarkerMixed, MarkerUpper} -> Marker
      [] w = "Not Found" -> "not found"
      [] OTHER -> w

toLowerCase(text) == [k \in 1..Len(text) |-> LowerWord(text[k])]

\* response.data / ex.response.data: undefined, a text, or an object with
\* some of the fields message, error, detail
StringBody(text) == [NoBody EXCEPT !.type = "string", !.text = text]

ObjectBody(message, error, detail) ==
    [NoBody EXCEPT !.type = "object", !.message = message, !.error = error,
                   !.detail = detail]

Bodies ==
    {NoBody,
     StringBody(<<"ok">>),
     StringBody(<<"error:", MarkerMixed>>),
     ObjectBody(<<"ok">>, Null, Null),
     ObjectBody(<<MarkerUpper>>, Null, Null),
     ObjectBody(Null, <<Marker>>, Null),
     ObjectBody(<<"Not Found">>, <<Marker>>, Null),
     ObjectBody(Null, Null, <<MarkerMixed>>)}

\* What axios.post settles with: a response, or an error ex that carries a
\* response or (the request never answered) only its message
Outcomes ==
    {[ok |-> TRUE, hasResponse |-> TRUE, data |-> b, message |-> <<>>] : b \in Bodies}
    \cup {[ok |-> FALSE, hasResponse |-> TRUE, data |-> b,
           message |-> <<"request failed">>] : b \in Bodies}
    \cup {[ok |-> FALSE, hasResponse |-> FALSE, data |-> NoBody,
           message |-> <<"network error">>]}

\* JSON.stringify of such an object, as tokens
JSONField(name, value) == IF value = Null THEN <<>> ELSE <<name, ":">> \o value

JSONStringifyObject(data) ==
    <<"{">> \o JSONField("message", data.message) \o JSONField("error", data.error)
            \o JSONField("detail", data.detail) \o <<"}">>

\* A check that looks for the marker in the body as it is written
checkForError_CaseSensitive(data) ==
    IF data.type = "undefined" \/ (data.type = "string" /\ data.text = <<>>) THEN FALSE
    ELSE LET errorStr == IF data.type = "string" THEN data.text
                         ELSE JSONStringifyObject(data)
         IN includes(errorStr, Marker)

\* checkForError(responseData) of the .then of a heartbeat delivery
checkForError(data) ==
    IF data.type = "undefined" \/ (data.type = "string" /\ data.text = <<>>) THEN FALSE
    ELSE LET errorStr == IF data.type = "string" THEN data.text
                         ELSE JSONStringifyObject(data)
         IN includes(toLowerCase(errorStr), Marker)

\* a || b
OrElse(a, b) == IF Truthy(a) THEN a ELSE b

\* errorMessage of the .catch of a heartbeat delivery
errorMessage(ex) ==
    LET errorData == IF ex.hasResponse THEN ex.data ELSE NoBody IN
    IF errorData.type = "string" THEN errorData.text
    ELSE OrElse(errorData.message, OrElse(errorData.error, OrElse(ex.message, <<>>)))

\* A dispatcher that interprets the deliveries of every event
IsHeartbeat_Always(type) == TRUE

\* if (event.type === "heartbeat")
IsHeartbeat(type) == type = "heartbeat"

\* The signals the .then emits
OnFulfilled(type, response) ==
    IF ~IsHeartbeat(type) THEN <<>>
    ELSE IF checkForError(response.data) THEN <<"relay-server-not-found">>
    ELSE <<"relay-server-found">>

\* A .catch that takes an error without the marker for a sign of life
OnRejected_Found(type, ex) ==
    IF ~IsHeartbeat(type) THEN <<>>
    ELSE IF includes(toLowerCase(errorMessage(ex)), Marker)
         THEN <<"relay-server-not-found">>
    ELSE <<"relay-server-found">>

\* The signals the .catch emits
OnRejected(type, ex) ==
    IF ~IsHeartbeat(type) THEN <<>>
    ELSE IF includes(toLowerCase(errorMessage(ex)), Marker)
         THEN <<"relay-server-not-found">>
    ELSE <<>>

\* A .catch that sends the request again
AfterRejection_Resend == "called"

\* The .catch only logs or emits: the delivery is over
AfterRejection == "settled"

\* The POST of row i settles and the .then or .catch of dispatch runs
PostSettles(i) ==
    /\ i \in 1..Len(deliveries)
    /\ deliveries[i].status = "posted"
    /\ \E out \in Outcomes :
        LET emitted == IF out.ok THEN OnFulfilled(dispatched.type, out)
                       ELSE OnRejected(dispatched.type, out)
        IN
        /\ deliveries' = [deliveries EXCEPT ![i].status =
                             IF out.ok THEN "settled" ELSE AfterRejection]
        /\ signals' = signals \cup {emitted[k] : k \in 1..Len(emitted)}
        /\ settled' = [hook |-> i, ok |-> out.ok, hasResponse |-> out.hasResponse,
                       data |-> out.data, emitted |-> emitted]
    /\ UNCHANGED <<provVars, authVars, dispatched, hbVars, idVars>>

\* The webhooks table of a provisioned server, the Keychain holding the
\* webhook secret of its provisioning
InitDispatch ==
    /\ keychain = [EmptyKeychain EXCEPT ![ACCOUNT_WEBHOOK_SECRET] = WebhookSecretOf(1)]
    /\ config = [k \in ConfigKeys |-> IF k = "tutorial_is_done" THEN True ELSE Null]
    /\ webhooks \in WebhookTables
    /\ provisionToken = <<>>
    /\ isConnecting = FALSE
    /\ currentStep = "connected"
    /\ started = 0
    /\ pc = [a \in Attempts |-> "idle"]
    /\ loc = [a \in Attempts |-> NoLocals]
    /\ trace = [a \in Attempts |-> NoTrace]
    /\ authReq = NoRequest
    /\ authOutcome = "none"
    /\ nextCalls = 0
    /\ DispatcherIdle
    /\ HeartbeatIdle
    /\ IdentityIdle

NextDispatch ==
    \/ \E type \in EventTypes : Dispatch(type)
    \/ \E i \in 1..MaxHooks : SendPost(i)
    \/ \E i \in 1..MaxHooks : PostSettles(i)

SpecDispatch == InitDispatch /\ [][NextDispatch]_vars

\* What the Keychain and the configuration table can hold for the webhook
\* secret: storeWebhookSecret refuses "", the table has no row, "" or the
\* secret of an installation from before the Keychain was used
KeychainSecrets == {Null, WebhookSecretOf(1)}
ConfigSecrets == {Null, <<>>, WebhookSecretOf(2)}

\* One webhook subscribed to every event, each combination of stored secrets
InitSendPost ==
    /\ \E ks \in KeychainSecrets :
         keychain = [EmptyKeychain EXCEPT ![ACCOUNT_WEBHOOK_SECRET] = ks]
    /\ \E cs \in ConfigSecrets :
         config = [k \in ConfigKeys |-> IF k = "tutorial_is_done" THEN True
                                        ELSE IF k = "webhook_secret" THEN cs
                                        ELSE Null]
    /\ webhooks = <<[url |-> <<"u">>, events |-> JSONStringifyArray(<<"*">>)]>>
    /\ provisionToken = <<>>
    /\ isConnecting = FALSE
    /\ currentStep = "connected"
    /\ started = 0
    /\ pc = [a \in Attempts |-> "idle"]
    /\ loc = [a \in Attempts |-> NoLocals]
    /\ trace = [a \in Attempts |-> NoTrace]
    /\ authReq = NoRequest
    /\ authOutcome = "none"
    /\ nextCalls = 0
    /\ DispatcherIdle
    /\ HeartbeatIdle
    /\ IdentityIdle

SpecSendPost == InitSendPost /\ [][NextDispatch]_vars

----------------------------------------------------------------------------
(* Heartbeat Monitor: HeartbeatService *)

\* The delay of the first heartbeat and the period of the others, in ms
InitialDelay == 30000
Period == 300000

\* Timers pending at one time, and initial delays the clock runs for
MaxTimers == 3
MaxDelays == 10

TimerIds == {t.id : t \in timers}

\* The handle setTimeout or setInterval returns: one no live timer has
FreshId(used) == CHOOSE n \in 1..(Cardinality(used) + 1) : n \notin used

\* A start that does not look at isRunning
AlreadyRunning_Ignored(service) == FALSE

\* if (this.isRunning) of start()
AlreadyRunning(service) == service.isRunning

\* start(): the handle of the timeout is dropped, that of the interval kept
Start ==
    /\ IF AlreadyRunning(heartbeat)
       THEN /\ UNCHANGED <<heartbeat, timers>>
            /\ hbLast' = [NoCall EXCEPT !.op = "start", !.noop = TRUE]
       ELSE LET timeoutId == FreshId(TimerIds)
                intervalId == FreshId(TimerIds \cup {timeoutId})
            IN /\ Cardinality(timers) + 2 <= MaxTimers
               /\ heartbeat' = [isRunning |-> TRUE, intervalId |-> intervalId,
                                startTime |-> now]
               /\ timers' = timers \cup
                      {[id |-> timeoutId, kind |-> "timeout", due |-> now + InitialDelay],
                       [id |-> intervalId, kind |-> "interval", due |-> now + Period]}
               /\ hbLast' = [NoCall EXCEPT !.op = "start"]
    /\ UNCHANGED <<provVars, authVars, dispVars, now, idVars>>

\* stop(): clearInterval(this.intervalId), and nothing for the timeout
Stop ==
    /\ IF ~heartbeat.isRunning
       THEN /\ UNCHANGED <<heartbeat, timers>>
            /\ hbLast' = [NoCall EXCEPT !.op = "stop", !.noop = TRUE]
       ELSE /\ heartbeat' = [heartbeat EXCEPT !.isRunning = FALSE, !.intervalId = 0]
            /\ timers' = {t \in timers : t.id # heartbeat.intervalId}
            /\ hbLast' = [NoCall EXCEPT !.op = "stop"]
    /\ UNCHANGED <<provVars, authVars, dispVars, now, idVars>>

\* ipc toggle-tutorial: setConfig("tutorial_is_done", toggle)
ToggleTutorial(toggle) ==
    /\ config' = [config EXCEPT !["tutorial_is_done"] = IF toggle THEN True ELSE False]
    /\ UNCHANGED <<keychain, webhooks, provisionToken, isConnecting, currentStep,
                   started, pc, loc, trace, authVars, dispVars, hbVars, idVars>>

\* The times at which live timers are due, later than now
LaterDues == {t.due : t \in timers} \ (0..now)

\* Time passes, up to the next time a live timer is due
Elapse ==
    /\ LaterDues # {}
    /\ now < MaxDelays * InitialDelay
    /\ now' = CHOOSE d \in LaterDues : \A e \in LaterDues : d <= e
    /\ UNCHANGED <<provVars, authVars, dispVars, heartbeat, timers, hbLast, idVars>>

\* A tick that does not look at tutorial_is_done
SetupComplete_Ignored(tutorialDone) == TRUE

\* if (!tutorialDone) return, negated
SetupComplete(tutorialDone) == Truthy(tutorialDone)

\* The events sendHeartbeat hands to the dispatcher: none when setup is not
\* complete, when collectHealthMetrics throws (caught, logged as an error)
\* or when the server has no webhookService (a warning)
HeartbeatEvents(tutorialDone, metricsThrow, serviceAvailable) ==
    IF ~SetupComplete(tutorialDone) THEN <<>>
    ELSE IF metricsThrow THEN <<>>
    ELSE IF serviceAvailable THEN <<"heartbeat">>
    ELSE <<>>

\* sendHeartbeat(), with the dispatch it calls and does not await
sendHeartbeat(metricsThrow, serviceAvailable) ==
    LET tutorialDone == config["tutorial_is_done"]
        events == HeartbeatEvents(tutorialDone, metricsThrow, serviceAvailable)
    IN /\ hbLast' = [op |-> "tick", noop |-> FALSE, tutorialDone |-> tutorialDone,
                     metrics |-> IF ~SetupComplete(tutorialDone) THEN "none"
                                 ELSE IF metricsThrow THEN "threw" ELSE "ok",
                     service |-> IF ~SetupComplete(tutorialDone) \/ metricsThrow THEN "none"
                                 ELSE IF serviceAvailable THEN "available"
                                 ELSE "missing",
                     dispatches |-> Len(events)]
       /\ IF events = <<>> THEN UNCHANGED dispVars
          ELSE DispatchCall(events[1]) /\ UNCHANGED <<signals, settled>>

\* A live timer whose time has come runs its callback; an interval is armed
\* again, a timeout is gone
Fire(t) ==
    /\ t \in timers
    /\ now >= t.due
    /\ timers' = IF t.kind = "interval"
                 THEN (timers \ {t}) \cup {[t EXCEPT !.due = now + Period]}
                 ELSE timers \ {t}
    /\ \E metricsThrow \in BOOLEAN, serviceAvailable \in BOOLEAN :
           sendHeartbeat(metricsThrow, serviceAvailable)
    /\ UNCHANGED <<provVars, authVars, heartbeat, now, idVars>>

\* The server at its launch, before or after the onboarding, with one
\* webhook registered for every event
InitHeartbeat ==
    /\ keychain = [EmptyKeychain EXCEPT ![ACCOUNT_WEBHOOK_SECRET] = WebhookSecretOf(1)]
    /\ \E done \in {Null, True} :
           config = [k \in ConfigKeys |-> IF k = "tutorial_is_done" THEN done ELSE Null]
    /\ webhooks = addWebhook(<<>>, <<"u">>, <<"*">>)
    /\ provisionToken = <<>>
    /\ isConnecting = FALSE
    /\ currentStep = "connected"
    /\ started = 0
    /\ pc = [a \in Attempts |-> "idle"]
    /\ loc = [a \in Attempts |-> NoLocals]
    /\ trace = [a \in Attempts |-> NoTrace]
    /\ authReq = NoRequest
    /\ authOutcome = "none"
    /\ nextCalls = 0
    /\ DispatcherIdle
    /\ HeartbeatIdle
    /\ IdentityIdle

NextHeartbeat ==
    \/ Start
    \/ Stop
    \/ \E toggle \in BOOLEAN : ToggleTutorial(toggle)
    \/ Elapse
    \/ \E t \in timers : Fire(t)

SpecHeartbeat == InitHeartbeat /\ [][NextHeartbeat]_vars

----------------------------------------------------------------------------
(* Identity & Secret Store: KeypairService, one action for each await of    *)
(* ensureKeypair; the keypair and the device id a call generates are named  *)
(* after the call.                                                          *)

\* A clearKeypair that leaves the device id
IdentityAccounts_KeysOnly == <<ACCOUNT_PRIVATE, ACCOUNT_PUBLIC>>

\* The accounts clearKeypair deletes, in its order
IdentityAccounts == <<ACCOUNT_PRIVATE, ACCOUNT_PUBLIC, ACCOUNT_DEVICE_ID>>

\* A clearServerCredentials that takes the device id for the webhook secret
ServerAccounts_DeviceId == <<ACCOUNT_SERVER_PASSWORD, ACCOUNT_DEVICE_ID>>

\* The accounts clearServerCredentials deletes, in its order
ServerAccounts == <<ACCOUNT_SERVER_PASSWORD, ACCOUNT_WEBHOOK_SECRET>>

\* clearKeypair, then clearServerCredentials
AllAccounts == IdentityAccounts \o ServerAccounts

\* keytar finds every account in the Keychain
Full(kc) == \A k \in Accounts : kc[k] # Null

\* The identity a call returned, or the store holds: none is NoIdentity
NoIdentity == [publicKey |-> Null, deviceId |-> Null]

InFlight(call) == call.pc \notin {"idle", "returned", "superseded", "threw", "killed"}

\* No call of ensureKeypair is under way
Quiet == \A c \in Calls : ~InFlight(ensureCalls[c])

\* keytar.deletePassword for the first n of the accounts
RECURSIVE DeleteAccounts(_, _, _)
DeleteAccounts(kc, accounts, n) ==
    IF n = 0 THEN kc
    ELSE [DeleteAccounts(kc, accounts, n - 1) EXCEPT ![accounts[n]] = Null]

\* ensureKeypair is called: await KeypairService.initialize()
EnsureCall(c) ==
    /\ ensureCalls[c].pc = "idle"
    /\ ensureCalls' = [ensureCalls EXCEPT ![c].pc = "read-private"]
    /\ UNCHANGED <<provVars, authVars, dispVars, hbVars, idLog, codec>>

\* An ensureKeypair that never takes what it finds
FoundExisting_Never(existingPrivate, existingPublic, deviceId) == FALSE

\* if (existingPrivate && existingPublic && deviceId)
FoundExisting(existingPrivate, existingPublic, deviceId) ==
    Truthy(existingPrivate) /\ Truthy(existingPublic) /\ Truthy(deviceId)

\* if (!deviceId) deviceId = uuidv4()
NewDeviceId(c, deviceId) == IF Truthy(deviceId) THEN deviceId ELSE DeviceIdOf(c)

\* ensureKeypair from its last keytar.getPassword on: the identity found is
\* returned, or a keypair is generated, with a device id if none was found
AfterReads(c, call) ==
    IF FoundExisting(call.existingPrivate, call.existingPublic, call.deviceId)
    THEN [NoEnsure EXCEPT !.pc = "returned", !.publicKey = call.existingPublic,
                          !.deviceId = call.deviceId, !.isNew = FALSE]
    ELSE [call EXCEPT !.pc = "write-private", !.publicKey = PublicKeyOf(c),
                      !.privateKey = PrivateKeyOf(c),
                      !.deviceId = NewDeviceId(c, call.deviceId)]

\* One of the three keytar.getPassword calls of ensureKeypair settles
EnsureRead(c) ==
    /\ ensureCalls[c].pc \in {"read-private", "read-public", "read-device"}
    /\ \E threw \in BOOLEAN :
        LET call == ensureCalls[c]
            next == IF threw THEN [NoEnsure EXCEPT !.pc = "threw"]
                    ELSE IF call.pc = "read-private"
                    THEN [call EXCEPT !.pc = "read-public",
                                      !.existingPrivate = keychain[ACCOUNT_PRIVATE]]
                    ELSE IF call.pc = "read-public"
                    THEN [call EXCEPT !.pc = "read-device",
                                      !.existingPublic = keychain[ACCOUNT_PUBLIC]]
                    ELSE AfterReads(c, [call EXCEPT !.deviceId = keychain[ACCOUNT_DEVICE_ID]])
        IN /\ ensureCalls' = [ensureCalls EXCEPT ![c] = next]
           /\ idLog' = IF next.pc = "returned" THEN [idLog EXCEPT !.after = "found"]
                       ELSE idLog
    /\ UNCHANGED <<provVars, authVars, dispVars, hbVars, codec>>

\* One of the three keytar.setPassword calls of ensureKeypair settles; after
\* the last the call returns what it generated, isNew: true
EnsureWrite(c) ==
    /\ ensureCalls[c].pc \in {"write-private", "write-public", "write-device"}
    /\ \E threw \in BOOLEAN :
        LET call == ensureCalls[c] IN
        IF threw
        THEN /\ ensureCalls' = [ensureCalls EXCEPT ![c] = [NoEnsure EXCEPT !.pc = "threw"]]
             /\ UNCHANGED <<keychain, idLog>>
        ELSE IF call.pc = "write-private"
        THEN /\ keychain' = setPassword(keychain, ACCOUNT_PRIVATE, call.privateKey)
             /\ ensureCalls' = [ensureCalls EXCEPT ![c].pc = "write-public"]
             /\ UNCHANGED idLog
        ELSE IF call.pc = "write-public"
        THEN /\ keychain' = setPassword(keychain, ACCOUNT_PUBLIC, call.publicKey)
             /\ ensureCalls' = [ensureCalls EXCEPT ![c].pc = "write-device"]
             /\ UNCHANGED idLog
        ELSE /\ keychain' = setPassword(keychain, ACCOUNT_DEVICE_ID, call.deviceId)
             /\ ensureCalls' = [ensureCalls EXCEPT ![c] =
                                    [NoEnsure EXCEPT !.pc = "returned",
                                                     !.publicKey = call.publicKey,
                                                     !.deviceId = call.deviceId,
                                                     !.isNew = TRUE]]
             /\ idLog' = [idLog EXCEPT !.after = "created",
                                       !.first =
                             IF @ = NoIdentity
                             THEN [publicKey |-> call.publicKey, deviceId |-> call.deviceId]
                             ELSE @]
    /\ UNCHANGED <<config, webhooks, provisionToken, isConnecting, currentStep,
                   started, pc, loc, trace, authVars, dispVars, hbVars, codec>>

\* storeServerPassword(password) / storeWebhookSecret(secret)
StoreCredential(account) ==
    /\ keychain' = setPassword(keychain, account,
                               IF account = ACCOUNT_SERVER_PASSWORD
                               THEN PasswordOf(1) ELSE WebhookSecretOf(1))
    /\ UNCHANGED <<config, webhooks, provisionToken, isConnecting, currentStep,
                   started, pc, loc, trace, authVars, dispVars, hbVars, idVars>>

\* clearServerCredentials(); keytar fails after n of the two deletions
\* unless n is 2
ClearServerCredentials(n) ==
    /\ keychain' = DeleteAccounts(keychain, ServerAccounts, n)
    /\ idLog' = [idLog EXCEPT !.op = "clearServerCredentials",
                              !.ok = (n = Len(ServerAccounts)),
                              !.full = Full(keychain), !.after = "none"]
    /\ UNCHANGED <<config, webhooks, provisionToken, isConnecting, currentStep,
                   started, pc, loc, trace, authVars, dispVars, hbVars,
                   ensureCalls, codec>>

\* A clear of the identity that deletes `accounts` in order; the calls of
\* ensureKeypair that returned before it are set apart
ClearIdentity(op, accounts, n) ==
    /\ keychain' = DeleteAccounts(keychain, accounts, n)
    /\ idLog' = [op |-> op, ok |-> (n = Len(accounts)), full |-> Full(keychain),
                 after |-> "none", first |-> NoIdentity]
    /\ ensureCalls' = [c \in Calls |->
                          IF ensureCalls[c].pc = "returned"
                          THEN [NoEnsure EXCEPT !.pc = "superseded"]
                          ELSE ensureCalls[c]]
    /\ UNCHANGED <<config, webhooks, provisionToken, isConnecting, currentStep,
                   started, pc, loc, trace, authVars, dispVars, hbVars, codec>>

\* clearKeypair(); keytar fails after n of the three deletions unless n is 3
ClearKeypair(n) == ClearIdentity("clearKeypair", IdentityAccounts, n)

\* clearAllCredentials(): clearKeypair, then clearServerCredentials
ClearAllCredentials(n) ==
    ClearIdentity("clearAllCredentials", AllAccounts, n)

\* ipc "reset-app": clearServerCredentials inside a try/catch that logs,
\* then the data directory is removed and the application relaunched
ResetApp(n) ==
    /\ keychain' = DeleteAccounts(keychain, ServerAccounts, n)
    /\ config' = [k \in ConfigKeys |-> Null]
    /\ webhooks' = <<>>
    /\ ensureCalls' = [c \in Calls |->
                          IF InFlight(ensureCalls[c])
                          THEN [NoEnsure EXCEPT !.pc = "killed"]
                          ELSE ensureCalls[c]]
    /\ idLog' = [idLog EXCEPT !.op = "reset-app", !.ok = (n = Len(ServerAccounts)),
                              !.full = Full(keychain), !.after = "none"]
    /\ UNCHANGED <<provisionToken, isConnecting, currentStep, started, pc, loc, trace,
                   authVars, dispVars, hbVars, codec>>

\* A first run: nothing in the Keychain, no call of ensureKeypair yet
InitIdentity ==
    /\ keychain = EmptyKeychain
    /\ config = [k \in ConfigKeys |-> Null]
    /\ webhooks = <<>>
    /\ provisionToken = <<>>
    /\ isConnecting = FALSE
    /\ currentStep = "provisionToken"
    /\ started = 0
    /\ pc = [a \in Attempts |-> "idle"]
    /\ loc = [a \in Attempts |-> NoLocals]
    /\ trace = [a \in Attempts |-> NoTrace]
    /\ authReq = NoRequest
    /\ authOutcome = "none"
    /\ nextCalls = 0
    /\ DispatcherIdle
    /\ HeartbeatIdle
    /\ IdentityIdle

\* Calls of ensureKeypair that overlap in any way
NextIdentity ==
    \/ \E c \in Calls : EnsureCall(c)
    \/ \E c \in Calls : EnsureRead(c)
    \/ \E c \in Calls : EnsureWrite(c)

SpecIdentity == InitIdentity /\ [][NextIdentity]_vars

\* The operations of KeypairService and reset-app, each begun when the one
\* before it has ended
NextStore ==
    \/ \E c \in Calls : Quiet /\ EnsureCall(c)
    \/ \E c \in Calls : EnsureRead(c)
    \/ \E c \in Calls : EnsureWrite(c)
    \/ \E account \in {ACCOUNT_SERVER_PASSWORD, ACCOUNT_WEBHOOK_SECRET} :
           Quiet /\ StoreCredential(account)
    \/ \E n \in 0..Len(ServerAccounts) : Quiet /\ ClearServerCredentials(n)
    \/ \E n \in 0..Len(IdentityAccounts) : Quiet /\ ClearKeypair(n)
    \/ \E n \in 0..Len(AllAccounts) : Quiet /\ ClearAllCredentials(n)
    \/ \E n \in 0..Len(ServerAccounts) : Quiet /\ ResetApp(n)

SpecStore == InitIdentity /\ [][NextStore]_vars

----------------------------------------------------------------------------
(* Sealed-Box Codec: encryptSealedBox and the keypair-decrypt-sealed handler *)

RECURSIVE StringsUpTo(_)
StringsUpTo(n) ==
    IF n = 0 THEN {<<>>}
    ELSE StringsUpTo(n - 1)
         \cup {Append(m, u) : m \in {x \in StringsUpTo(n - 1) : Len(x) = n - 1},
                               u \in CodeUnits}

Messages == StringsUpTo(MaxMsgLen)

\* The device keys ensureKeypair can have left in the Keychain: none, one
\* half after a call or a clearKeypair that threw part-way, a keypair, or
\* the private key of one call with the public key of another
StoredPrivateKeys == {Null} \cup {PrivateKeyOf(c) : c \in Calls}
StoredPublicKeys == {Null} \cup {PublicKeyOf(c) : c \in Calls}

CodecStores ==
    {[EmptyKeychain EXCEPT ![ACCOUNT_PRIVATE] = priv, ![ACCOUNT_PUBLIC] = pub] :
        priv \in StoredPrivateKeys, pub \in StoredPublicKeys}

\* encryptSealedBox(message, publicKeyB64?); a behaviour follows one box
EncryptSealedBox(message, publicKeyB64) ==
    /\ codec = NoBox
    /\ LET sealedB64 == encryptSealedBox(keychain, message, publicKeyB64)
       IN codec' = [NoBox EXCEPT !.message = message, !.to = publicKeyB64,
                                 !.sealedB64 = sealedB64,
                                 !.opened = IF sealedB64 = Null THEN "threw" ELSE "sealed"]
    /\ UNCHANGED <<provVars, authVars, dispVars, hbVars, keychain, ensureCalls, idLog>>

\* The ciphertext is corrupted before it is opened
Corrupt ==
    /\ codec.opened = "sealed"
    /\ codec.sealedB64[4] = <<"intact">>
    /\ codec' = [codec EXCEPT !.sealedB64 = SealedBox(@[2], @[3], <<"damaged">>)]
    /\ UNCHANGED <<provVars, authVars, dispVars, hbVars, keychain, ensureCalls, idLog>>

\* ipc "keypair-decrypt-sealed" on the box made last; keytar can throw in
\* getPublicKey or getPrivateKey, which decryptSealedBox catches
DecryptSealed ==
    /\ codec.opened = "sealed"
    /\ \E threw \in BOOLEAN :
         LET plaintext == IF threw THEN Null
                          ELSE decryptSealedBox(keychain, codec.sealedB64)
             result == IF threw THEN [success |-> FALSE, plaintext |-> Null]
                       ELSE KeypairDecryptSealed(keychain, codec.sealedB64)
         IN codec' = [codec EXCEPT !.opened = IF threw THEN "unavailable" ELSE "done",
                                   !.plaintext = plaintext,
                                   !.success = result.success]
    /\ UNCHANGED <<provVars, authVars, dispVars, hbVars, keychain, ensureCalls, idLog>>

InitCodec ==
    /\ keychain \in CodecStores
    /\ config = [k \in ConfigKeys |-> Null]
    /\ webhooks = <<>>
    /\ provisionToken = <<>>
    /\ isConnecting = FALSE
    /\ currentStep = "provisionToken"
    /\ started = 0
    /\ pc = [a \in Attempts |-> "idle"]
    /\ loc = [a \in Attempts |-> NoLocals]
    /\ trace = [a \in Attempts |-> NoTrace]
    /\ authReq = NoRequest
    /\ authOutcome = "none"
    /\ nextCalls = 0
    /\ DispatcherIdle
    /\ HeartbeatIdle
    /\ IdentityIdle

NextCodec ==
    \/ \E message \in Messages, publicKeyB64 \in StoredPublicKeys :
           EncryptSealedBox(message, publicKeyB64)
    \/ Corrupt
    \/ DecryptSealed

SpecCodec == InitCodec /\ [][NextCodec]_vars

----------------------------------------------------------------------------
(* Provisioning: properties of Spec *)

Ended(a) == pc[a] \in {"failed", "complete"}

LinkageKeys == {"server_id", "server_address", "webhook_id"}

\* C1: an invocation in which one of the three sealed fields did not open has
\* written nothing to the Keychain or the configuration, has not called the
\* tunnel installer and has not completed onboarding.
C1_DecryptionAllOrNothing ==
    \A a \in Attempts :
        trace[a].decryptFailed =>
            /\ trace[a].wrote = {}
            /\ trace[a].installedWith = {}
            /\ trace[a].store = "none"
            /\ pc[a] = "failed"

\* C1 witness: the third sealed field failed to open after two had opened
C1_Witness ==
    \E a \in Attempts : trace[a].decryptFailed /\ trace[a].decryptCalls = 3 /\ pc[a] = "failed"

\* C2: the stored credential pair is empty or the two values of one exchange
C2_CredentialPairOfOneExchange ==
    LET p == keychain[ACCOUNT_SERVER_PASSWORD]
        w == keychain[ACCOUNT_WEBHOOK_SECRET]
    IN \/ p = Null /\ w = Null
       \/ \E e \in Attempts : p = PasswordOf(e) /\ w = WebhookSecretOf(e)

\* C7: after a failed exchange no sealed field is opened and the installer is
\* not called; after a failed install nothing is registered; in both cases
\* nothing is written and the invocation ends as failed.
C7_FatalStepEndsAttempt ==
    \A a \in Attempts :
        /\ trace[a].exchange = "failed" =>
              /\ trace[a].decryptCalls = 0
              /\ trace[a].installedWith = {}
              /\ trace[a].install = "none"
        /\ (trace[a].exchange = "failed" \/ trace[a].install = "failure") =>
              /\ pc[a] = "failed"
              /\ trace[a].wrote = {}
              /\ trace[a].store = "none"
              /\ trace[a].register = "none"
              /\ trace[a].webhook = "none"
              /\ trace[a].setConfig = "none"

\* C7 witness: an invocation that opened its three sealed fields has just
\* been ended by a failed install
C7_Witness ==
    \E a \in Attempts :
        /\ pc[a] = "failed"
        /\ trace[a].exchange = "ok"
        /\ trace[a].decryptCalls = 3 /\ ~trace[a].decryptFailed
        /\ trace[a].install = "failure"
        /\ trace[a].installedWith = {TunnelTokenOf(a)}

\* C8: while an invocation is paused after a cancelled administrator prompt,
\* no token exchange is submitted and no sealed field is opened.
C8_RetryRunsOnlyInstall ==
    [][(\E a \in Attempts : Paused(a)) =>
          \A b \in Attempts :
              /\ ~(pc[b] = "exchange-provision-token" /\ pc'[b] # pc[b])
              /\ trace'[b].decryptCalls <= trace[b].decryptCalls]_vars

\* C9: the installer is called again only after a click on Connect: an
\* invocation about to call it has seen as many clicks while paused as it
\* has made calls before.
C9_RetriesUserDriven ==
    \A a \in Attempts :
        pc[a] = "install-cloudflared-service" =>
            trace[a].installCalls <= trace[a].pausedClicks

\* C10 as first stated: an invocation that ended after its exchange, its
\* three decryptions and its tunnel install succeeded has written the
\* ServerLinkage and the onboarding flag and is complete.
C10_RegistrationNonFatal_Original ==
    \A a \in Attempts :
        (/\ Ended(a)
         /\ trace[a].exchange = "ok"
         /\ trace[a].decryptCalls = 3 /\ ~trace[a].decryptFailed
         /\ trace[a].install = "success")
        => /\ pc[a] = "complete"
           /\ LinkageKeys \cup {"tutorial_is_done"} \subseteq trace[a].wrote

\* C10: whatever the outcomes of the device registration and the webhook
\* registration, an invocation that ended after its exchange, its three
\* decryptions, its tunnel install and both Keychain writes succeeded, and
\* whose set-config and get-config calls did not fail, has written the
\* ServerLinkage and the onboarding flag and is complete.
C10_RegistrationNonFatal ==
    \A a \in Attempts :
        (/\ Ended(a)
         /\ trace[a].exchange = "ok"
         /\ trace[a].decryptCalls = 3 /\ ~trace[a].decryptFailed
         /\ trace[a].install = "success"
         /\ trace[a].store = "ok"
         /\ trace[a].setConfig # "failed"
         /\ trace[a].getConfig # "failed")
        => /\ pc[a] = "complete"
           /\ LinkageKeys \cup {"tutorial_is_done"} \subseteq trace[a].wrote
           /\ config["tutorial_is_done"] = True

\* C10 witness: an invocation completed although both registrations failed
C10_Witness ==
    \E a \in Attempts :
        /\ pc[a] = "complete"
        /\ trace[a].register = "failed"
        /\ trace[a].webhook = "failed"
        /\ config["tutorial_is_done"] = True

\* C11: a click on Connect after an invocation failed in a step that
\* follows its exchange and its three decryptions (install, Keychain write,
\* set-config, get-config) does not start over from the keypair step: the
\* steps that had succeeded are not repeated.
C11_RetryReentersFailedStep ==
    [][\A b \in Attempts :
          (/\ pc[b] = "failed"
           /\ trace[b].exchange = "ok"
           /\ trace[b].decryptCalls = 3 /\ ~trace[b].decryptFailed
           /\ started' = started + 1)
          => pc'[started'] # "keypair-generate"]_vars

----------------------------------------------------------------------------
(* Auth Gate: properties of SpecAuth *)

Handled == authOutcome # "none"

MissingCredential == "Unauthorized: Missing server password!"
InvalidCredential == "Unauthorized"

QueryCandidate(req) == Coalesce(req.guid, req.password, req.token)

\* The candidate token as the design has it: the Bearer token of the
\* Authorization header, the query parameters only without a header
DesignCandidate(req) ==
    IF req.header = Null THEN QueryCandidate(req) ELSE BearerGroup(req.header)

\* The canonical password as the design has it: the Keychain one, the
\* configuration one if the Keychain gives none, Null if neither
DesignCanonical(req) ==
    LET fromKeychain == IF req.keytarThrows THEN Null ELSE keychain[ACCOUNT_SERVER_PASSWORD]
    IN IF Truthy(fromKeychain) THEN fromKeychain
       ELSE IF Truthy(config["password"]) THEN config["password"]
       ELSE Null

\* C3: a request with a candidate token, handled while a canonical password
\* is resolvable, reaches the protected handler exactly once if the trimmed
\* values are equal and is refused as invalid, without reaching it, if not.
C3_AcceptsIffTrimmedEqual ==
    (Handled /\ Truthy(DesignCandidate(authReq)) /\ Truthy(DesignCanonical(authReq)))
    => IF trim(DesignCandidate(authReq)) = trim(DesignCanonical(authReq))
       THEN authOutcome = "next" /\ nextCalls = 1
       ELSE authOutcome = InvalidCredential /\ nextCalls = 0

\* C4: a request without Authorization header and without any of the query
\* parameters guid, password, token is refused as missing its credential.
C4_MissingCredentialUnauthorized ==
    (/\ Handled
     /\ authReq.header = Null
     /\ authReq.guid = Null /\ authReq.password = Null /\ authReq.token = Null)
    => authOutcome = MissingCredential /\ nextCalls = 0

\* C5: a request with a Bearer token in its header, handled while the
\* Keychain holds no server password and the configuration no password
\* value, ends with ServerError.
C5_UnprovisionedIsServerError ==
    (/\ Handled
     /\ authReq.header # Null /\ Truthy(BearerGroup(authReq.header))
     /\ ~authReq.keytarThrows /\ keychain[ACCOUNT_SERVER_PASSWORD] = Null
     /\ config["password"] \in {Null, <<>>})
    => authOutcome = "ServerError" /\ nextCalls = 0

\* C6: without a header, a correct password in a query parameter
\* authenticates; with a header, and a canonical password resolvable, a
\* request is authenticated by the token of the header only.
C6_HeaderFirstQueryFallback ==
    /\ (/\ Handled
        /\ authReq.header = Null
        /\ Truthy(QueryCandidate(authReq)) /\ Truthy(DesignCanonical(authReq))
        /\ trim(QueryCandidate(authReq)) = trim(DesignCanonical(authReq)))
       => authOutcome = "next"
    /\ (/\ Handled
        /\ authReq.header # Null /\ authReq.header # <<>>
        /\ Truthy(DesignCanonical(authReq))
        /\ authOutcome = "next")
       => /\ Truthy(BearerGroup(authReq.header))
          /\ trim(BearerGroup(authReq.header)) = trim(DesignCanonical(authReq))

----------------------------------------------------------------------------
(* Webhook Dispatcher: properties of SpecDispatch *)

DispatchCalled == dispatched.pc # "idle"

\* The events set of row i, if its events text is one
EventsOf(i) == JSONParseArray(webhooks[i].events)

Subscribed(i) ==
    EventsOf(i).ok /\ (includes(EventsOf(i).value, "*")
                       \/ includes(EventsOf(i).value, dispatched.type))

Attempted(i) == deliveries[i].status # "none"

\* A body taken as text: the text itself, or the JSON text of the object
BodyText(data) ==
    IF data.type = "string" THEN data.text
    ELSE IF data.type = "object" THEN JSONStringifyObject(data)
    ELSE <<>>

HasMarker(data) == \E k \in 1..Len(BodyText(data)) : LowerWord(BodyText(data)[k]) = Marker

HeartbeatSettled == settled.hook # 0 /\ dispatched.type = "heartbeat"

\* C12: once dispatch has run, a row whose events set holds "*" or the type
\* of the event has a delivery attempt, and a row whose set holds neither
\* has none.
C12_DeliversIffSubscribed ==
    DispatchCalled =>
        \A i \in 1..Len(webhooks) :
            EventsOf(i).ok => (Attempted(i) <=> Subscribed(i))

\* C13: whatever the other rows of the table are and whatever their POSTs
\* end with, dispatch resolves and every row that passes the filter has its
\* delivery attempt.
C13_DeliveriesIndependent ==
    DispatchCalled =>
        /\ dispatched.pc = "resolved"
        /\ \A i \in 1..Len(webhooks) : Subscribed(i) => Attempted(i)

\* C14: a heartbeat delivery whose POST succeeded has emitted exactly one
\* signal: relay-server-not-found if the body, as text, holds the marker in
\* some letter case, relay-server-found if not.
C14_OneSignalPerSuccess ==
    (HeartbeatSettled /\ settled.ok) =>
        settled.emitted = IF HasMarker(settled.data) THEN <<"relay-server-not-found">>
                          ELSE <<"relay-server-found">>

\* C14 witness: the marker, in mixed case, in a field of a JSON body
C14_Witness ==
    /\ HeartbeatSettled /\ settled.ok
    /\ settled.data = ObjectBody(Null, Null, <<MarkerMixed>>)
    /\ settled.emitted = <<"relay-server-not-found">>

\* C15: a heartbeat delivery whose response or error body holds the marker
\* has emitted relay-server-not-found, whether the POST succeeded or failed.
C15_MarkerAlwaysSignalled ==
    (HeartbeatSettled /\ settled.hasResponse /\ HasMarker(settled.data)) =>
        includes(settled.emitted, "relay-server-not-found")

\* C16: while the event dispatched is not a heartbeat, no signal has been
\* emitted to the UI, whatever the deliveries ended with.
C16_OnlyHeartbeatSignals ==
    (DispatchCalled /\ dispatched.type # "heartbeat") =>
        signals = {} /\ settled.emitted = <<>>

\* C16 witness: a delivery of another event failed with the marker in its
\* error body
C16_Witness ==
    /\ dispatched.type = "message.sent"
    /\ settled.hook # 0 /\ ~settled.ok
    /\ settled.data = StringBody(<<"error:", MarkerMixed>>)
    /\ signals = {}

\* C17: no row is ever sent more than one POST for the event, and a row
\* without a delivery attempt none.
C17_AtMostOncePerRow ==
    \A i \in 1..Len(deliveries) :
        /\ deliveries[i].posts <= 1
        /\ deliveries[i].status \in {"none", "called"} => deliveries[i].posts = 0

\* C17 witness: a delivery failed and its one POST was the last
C17_Witness ==
    /\ settled.hook # 0 /\ ~settled.ok
    /\ deliveries[settled.hook].status = "settled"
    /\ deliveries[settled.hook].posts = 1

----------------------------------------------------------------------------
(* Heartbeat Monitor: properties of SpecHeartbeat *)

RecurringTimers(ts) == {t \in ts : t.kind = "interval"}

\* C18: a call of start() on a running monitor leaves its fields, the start
\* timestamp among them, and the set of pending timers as they were, and
\* exactly one recurring timer is live after it.
C18_StartWhileRunningIsNoop ==
    [][(heartbeat.isRunning /\ Start)
          => /\ UNCHANGED <<heartbeat, timers>>
             /\ Cardinality(RecurringTimers(timers')) = 1]_vars

\* C18 witness: start() was called on a monitor started earlier
C18_Witness ==
    /\ hbLast.op = "start" /\ hbLast.noop
    /\ heartbeat.isRunning
    /\ heartbeat.startTime < now
    /\ Cardinality(RecurringTimers(timers)) = 1

\* C19: no timer runs its tick while the monitor is not running, and a call
\* of stop() on a monitor that is not running leaves its fields and the
\* pending timers as they were.
C19_StopCancelsEveryTimer ==
    [][/\ ~heartbeat.isRunning => ~(\E t \in timers : Fire(t))
       /\ (~heartbeat.isRunning /\ Stop) => UNCHANGED <<heartbeat, timers>>]_vars

\* The tick found the onboarding complete
TickComplete == hbLast.tutorialDone = True

\* C20: a tick has handed one event, of type heartbeat, to the dispatcher
\* if the onboarding was complete when it ran and none if it was not.
C20_TickDispatchesIffComplete_Original ==
    hbLast.op = "tick" =>
        /\ hbLast.dispatches = IF TickComplete THEN 1 ELSE 0
        /\ hbLast.dispatches = 1 => dispatched.type = "heartbeat"

\* C20, amended: a tick has handed one event, of type heartbeat, to the
\* dispatcher if the onboarding was complete when it ran, the health
\* metrics could be collected and the server has its webhook service, and
\* none otherwise; a tick that found the onboarding not complete collected
\* nothing.
C20_TickDispatchesIffComplete ==
    hbLast.op = "tick" =>
        /\ hbLast.dispatches =
              IF TickComplete /\ hbLast.metrics = "ok" /\ hbLast.service = "available"
              THEN 1 ELSE 0
        /\ hbLast.dispatches = 1 => dispatched.type = "heartbeat"
        /\ ~TickComplete => hbLast.metrics = "none" /\ hbLast.service = "none"

\* C20 witness: a tick of a running monitor, after the onboarding was
\* completed, handed its one event to the dispatcher
C20_Witness ==
    /\ hbLast.op = "tick" /\ TickComplete
    /\ hbLast.dispatches = 1
    /\ dispatched = [pc |-> "resolved", type |-> "heartbeat"]
    /\ deliveries[1].status = "called"

----------------------------------------------------------------------------
(* Identity & Secret Store: properties of SpecStore and SpecIdentity *)

\* The call returned, and the identity has not been cleared since
Returned(call) == call.pc = "returned"

IdentityOf(call) == [publicKey |-> call.publicKey, deviceId |-> call.deviceId]

StoreIdentity(kc) == [publicKey |-> kc[ACCOUNT_PUBLIC], deviceId |-> kc[ACCOUNT_DEVICE_ID]]

CredentialsGone(kc) ==
    kc[ACCOUNT_SERVER_PASSWORD] = Null /\ kc[ACCOUNT_WEBHOOK_SECRET] = Null

IdentityGone(kc) ==
    kc[ACCOUNT_PRIVATE] = Null /\ kc[ACCOUNT_PUBLIC] = Null /\ kc[ACCOUNT_DEVICE_ID] = Null

SameIdentityAccounts(kc1, kc2) ==
    /\ kc1[ACCOUNT_PRIVATE] = kc2[ACCOUNT_PRIVATE]
    /\ kc1[ACCOUNT_PUBLIC] = kc2[ACCOUNT_PUBLIC]
    /\ kc1[ACCOUNT_DEVICE_ID] = kc2[ACCOUNT_DEVICE_ID]

\* C21: when the operations of the store follow one another, any two calls
\* of ensureKeypair that have returned with no clear of the identity since
\* returned the same deviceId and publicKey, at most one of them with isNew;
\* and a call that returns isNew = false returns the identity of the store
\* and leaves the store as it was.
C21_RepeatedEnsureSameIdentity ==
    [][/\ \A a, b \in Calls :
            (Returned(ensureCalls'[a]) /\ Returned(ensureCalls'[b]) /\ a # b)
               => /\ IdentityOf(ensureCalls'[a]) = IdentityOf(ensureCalls'[b])
                  /\ ~(ensureCalls'[a].isNew /\ ensureCalls'[b].isNew)
       /\ \A c \in Calls :
            (EnsureRead(c) /\ Returned(ensureCalls'[c]))
               => /\ ~ensureCalls'[c].isNew
                  /\ HasIdentity(keychain)
                  /\ IdentityOf(ensureCalls'[c]) = StoreIdentity(keychain)
                  /\ keychain' = keychain]_vars

\* C21 witness: of two calls that returned, one created the identity and
\* the other found it, and the application was reset in between
C21_Witness ==
    /\ \E a, b \in Calls :
          /\ Returned(ensureCalls[a]) /\ ensureCalls[a].isNew
          /\ Returned(ensureCalls[b]) /\ ~ensureCalls[b].isNew
          /\ IdentityOf(ensureCalls[a]) = IdentityOf(ensureCalls[b])
    /\ idLog.op = "reset-app" /\ idLog.after = "found"

\* C22: however calls of ensureKeypair overlap, a call that returns once an
\* identity has been written in full returns that identity, and when no
\* call is under way the store holds that identity, its two keys a pair.
C22_ConcurrentEnsureSameIdentity ==
    [][/\ \A c \in Calls :
            (~Returned(ensureCalls[c]) /\ Returned(ensureCalls'[c])
             /\ idLog.first # NoIdentity)
               => IdentityOf(ensureCalls'[c]) = idLog.first
       /\ (Quiet' /\ idLog'.first # NoIdentity)
               => /\ StoreIdentity(keychain') = idLog'.first
                  /\ KeysMatch(keychain'[ACCOUNT_PUBLIC], keychain'[ACCOUNT_PRIVATE])]_vars

\* What a call of ensureKeypair that nothing interleaves with returns for
\* the store kc when it finds an identity
EnsureFinds(kc) ==
    [found |-> FoundExisting(kc[ACCOUNT_PRIVATE], kc[ACCOUNT_PUBLIC], kc[ACCOUNT_DEVICE_ID]),
     identity |-> StoreIdentity(kc)]

\* C23: a call of clearServerCredentials leaves the three identity accounts
\* as they were, has deleted serverPassword and webhookSecret when it
\* returns, and a call of ensureKeypair after it finds the identity the
\* store held before.
C23_ClearServerCredentialsKeepsIdentity ==
    [][\A n \in 0..Len(ServerAccounts) :
          ClearServerCredentials(n)
             => /\ SameIdentityAccounts(keychain', keychain)
                /\ n = Len(ServerAccounts) => CredentialsGone(keychain')
                /\ HasIdentity(keychain)
                      => EnsureFinds(keychain') = [found |-> TRUE,
                                                   identity |-> StoreIdentity(keychain)]]_vars

\* C23 witness: the store held identity and credentials, the clear
\* returned, and the call of ensureKeypair after it found the identity
C23_Witness ==
    /\ idLog.op = "clearServerCredentials" /\ idLog.ok /\ idLog.full
    /\ idLog.after = "found"
    /\ CredentialsGone(keychain) /\ HasIdentity(keychain)
    /\ \E c \in Calls : /\ Returned(ensureCalls[c]) /\ ~ensureCalls[c].isNew
                        /\ IdentityOf(ensureCalls[c]) = StoreIdentity(keychain)

\* C24: after clearKeypair or clearAllCredentials has returned, the store
\* holds no account at all.
C24_ClearsWipeEverything_Original ==
    [][(ClearKeypair(Len(IdentityAccounts)) \/ ClearAllCredentials(Len(AllAccounts)))
          => keychain' = EmptyKeychain]_vars

\* C24, amended: after clearAllCredentials has returned the store holds no
\* account at all; after clearKeypair has returned it holds none of the
\* three identity accounts, and serverPassword and webhookSecret as before.
C24_ClearsWipeEverything ==
    [][/\ ClearAllCredentials(Len(AllAccounts)) => keychain' = EmptyKeychain
       /\ ClearKeypair(Len(IdentityAccounts))
             => /\ IdentityGone(keychain')
                /\ keychain'[ACCOUNT_SERVER_PASSWORD] = keychain[ACCOUNT_SERVER_PASSWORD]
                /\ keychain'[ACCOUNT_WEBHOOK_SECRET] = keychain[ACCOUNT_WEBHOOK_SECRET]]_vars

\* C24 witness: clearAllCredentials returned on a store that held every
\* account
C24_Witness ==
    /\ idLog.op = "clearAllCredentials" /\ idLog.ok /\ idLog.full
    /\ keychain = EmptyKeychain

\* C25: after reset-app has removed the data directory, the store holds
\* neither serverPassword nor webhookSecret, whether or not a deletion
\* failed.
C25_ResetClearsCredentials ==
    [][\A n \in 0..Len(ServerAccounts) : ResetApp(n) => CredentialsGone(keychain')]_vars

----------------------------------------------------------------------------
(* Sealed-Box Codec: properties of SpecCodec *)

\* The box made last was opened with the keypair it was sealed to
OpenedWithItsKeypair ==
    /\ codec.opened = "done"
    /\ codec.sealedB64[4] = <<"intact">>
    /\ codec.sealedB64[3] = keychain[ACCOUNT_PUBLIC]
    /\ KeysMatch(keychain[ACCOUNT_PUBLIC], keychain[ACCOUNT_PRIVATE])

\* No surrogate that is not half of a pair
RECURSIVE WellFormed(_)
WellFormed(message) ==
    IF message = <<>> THEN TRUE
    ELSE IF StartsWith(message, <<HighSurrogate, LowSurrogate>>)
         THEN WellFormed(Drop(message, 2))
    ELSE message[1] \notin {HighSurrogate, LowSurrogate} /\ WellFormed(Tail(message))

\* C26: whatever string encryptSealedBox sealed to a public key,
\* decryptSealedBox with that key and its private key returns that string.
C26_RoundTrip_Original ==
    OpenedWithItsKeypair => codec.plaintext = codec.message

\* C26, amended: a string without unpaired surrogates that encryptSealedBox
\* sealed to a public key is what decryptSealedBox with that key and its
\* private key returns.
C26_RoundTrip ==
    (OpenedWithItsKeypair /\ WellFormed(codec.message))
        => codec.plaintext = codec.message

\* C26 witness: a string of more than one byte to the code unit, sealed to
\* the key the caller named, came back as it was
C26_Witness ==
    /\ OpenedWithItsKeypair
    /\ codec.to = keychain[ACCOUNT_PUBLIC]
    /\ codec.message = <<HighSurrogate, LowSurrogate>>
    /\ codec.plaintext = codec.message
    /\ codec.success

\* C27: opening a box that was sealed to another public key than the
\* stored one, or corrupted, or with a stored keypair that is incomplete or
\* no pair, returns no plaintext, the handler answers success = false, and
\* the Keychain is as it was.
C27_OpenFailsClosed ==
    [][DecryptSealed
          => /\ keychain' = keychain
             /\ (\/ codec.sealedB64[4] # <<"intact">>
                 \/ codec.sealedB64[3] # keychain[ACCOUNT_PUBLIC]
                 \/ ~KeysMatch(keychain[ACCOUNT_PUBLIC], keychain[ACCOUNT_PRIVATE]))
                   => /\ codec'.plaintext = Null
                      /\ ~codec'.success]_vars

\* C27 witness: the Keychain holds a keypair, a corrupted box sealed to its
\* public key was opened and gave nothing
C27_Witness ==
    /\ codec.opened = "done"
    /\ codec.sealedB64[4] = <<"damaged">>
    /\ codec.sealedB64[3] = keychain[ACCOUNT_PUBLIC]
    /\ KeysMatch(keychain[ACCOUNT_PUBLIC], keychain[ACCOUNT_PRIVATE])
    /\ codec.plaintext = Null /\ ~codec.success

----------------------------------------------------------------------------
(* Secret Store failures, step order and password precedence: properties of
   SpecAuth and Spec *)

\* C28: a request with a candidate token, handled while reading the
\* Keychain throws, does not end as it would had the Keychain held no
\* password: it neither reaches the protected handler nor is refused as
\* invalid or as unprovisioned.
C28_StoreUnavailableIsDistinct ==
    (/\ Handled
     /\ authReq.header # Null /\ Truthy(CandidateToken(authReq))
     /\ authReq.keytarThrows)
    => authOutcome \notin {"next", InvalidCredential, "ServerError"}

\* C29: an invocation of the flow that has written serverPassword or
\* webhookSecret to the Keychain has had its device registration and its
\* webhook registration answered, well or not.
C29_CredentialsWrittenLast ==
    \A a \in Attempts :
        (trace[a].wrote \cap {ACCOUNT_SERVER_PASSWORD, ACCOUNT_WEBHOOK_SECRET} # {})
            => trace[a].register # "none" /\ trace[a].webhook # "none"

\* C30: a request with a candidate token is admitted, while the Keychain
\* holds a server password, exactly if the candidate is that password up to
\* surrounding blanks, whatever the configuration table holds; and while
\* the Keychain holds none and the configuration table a password, exactly
\* if it is that one.
C30_SecretStorePasswordFirst ==
    (/\ Handled
     /\ authReq.header # Null /\ Truthy(CandidateToken(authReq)))
    => /\ Truthy(keychain[ACCOUNT_SERVER_PASSWORD])
            => (authOutcome = "next"
                  <=> safeTrim(keychain[ACCOUNT_SERVER_PASSWORD])
                         = safeTrim(CandidateToken(authReq)))
       /\ (keychain[ACCOUNT_SERVER_PASSWORD] = Null /\ Truthy(config["password"]))
            => (authOutcome = "next"
                  <=> safeTrim(config["password"]) = safeTrim(CandidateToken(authReq)))

----------------------------------------------------------------------------
(* Webhook signing: properties of SpecSendPost *)

\* The secret as the design resolves it: the Keychain one unless it is
\* empty, then the one of the configuration table, Null if neither
DesignSecret ==
    IF Truthy(keychain[ACCOUNT_WEBHOOK_SECRET]) THEN keychain[ACCOUNT_WEBHOOK_SECRET]
    ELSE IF Truthy(config["webhook_secret"]) THEN config["webhook_secret"]
    ELSE Null

\* C31: every request sendPost has sent carries X-Webhook-Secret: Bearer
\* and the Keychain secret if the Keychain holds one, else Bearer and the
\* secret of the configuration table if that holds one, else no such
\* header; and the request of a called delivery is sent in each case.
C31_SecretFromStoreFirst ==
    \A i \in 1..Len(deliveries) :
        deliveries[i].posts > 0
            => deliveries[i].header = IF DesignSecret = Null THEN Null
                                      ELSE <<"Bearer", " ">> \o DesignSecret

----------------------------------------------------------------------------
(* Query parameters of the Auth Gate: properties of SpecAuth *)

\* The request gives no Bearer token in its header
FellBack(req) == req.header = Null \/ ~Truthy(BearerGroup(req.header))

\* The query parameters in their order of priority
QueryPriority(req) == <<req.guid, req.password, req.token>>

\* The password the request was compared with
ComparedWith == CanonicalPassword(authReq, keychain, config)

\* C32: a request without Bearer token that reaches the protected handler
\* does so by the first of guid, password, token it carries; one that
\* carries the right password in a parameter and something else in the
\* first parameter it carries does not reach the handler.
C32_QueryPriority ==
    (Handled /\ FellBack(authReq))
    => LET params == QueryPriority(authReq)
           present == {k \in 1..3 : params[k] # Null}
       IN /\ authOutcome = "next"
               => \E k \in present :
                      /\ \A j \in present : k <= j
                      /\ safeTrim(params[k]) = safeTrim(ComparedWith)
          /\ \A k, j \in present :
               (/\ j < k /\ \A i \in present : j <= i
                /\ safeTrim(params[k]) = safeTrim(ComparedWith)
                /\ safeTrim(params[j]) # safeTrim(ComparedWith))
                   => authOutcome # "next" /\ nextCalls = 0

\* C32 witness: a request whose header has no Bearer token carries the
\* right password as password and an empty guid, and was refused
C32_Witness ==
    /\ Handled /\ authReq.header # Null /\ FellBack(authReq)
    /\ authReq.guid = <<>>
    /\ Truthy(authReq.password)
    /\ safeTrim(authReq.password) = safeTrim(ComparedWith)
    /\ authOutcome = MissingCredential

----------------------------------------------------------------------------
(* Onboarding complete: properties of Spec *)

CredentialAccounts == {ACCOUNT_SERVER_PASSWORD, ACCOUNT_WEBHOOK_SECRET}

\* C33: while tutorial_is_done is set, the Keychain holds a server password
\* and a webhook secret and the configuration table server_id,
\* server_address and webhook_id; and an invocation of the flow that wrote
\* tutorial_is_done wrote all five before it.
C33_CompleteImpliesProvisioned ==
    /\ Truthy(config["tutorial_is_done"])
          => /\ \A account \in CredentialAccounts : Truthy(keychain[account])
             /\ \A key \in LinkageKeys : Truthy(config[key])
    /\ \A a \in Attempts :
          "tutorial_is_done" \in trace[a].wrote
             => CredentialAccounts \cup LinkageKeys \subseteq trace[a].wrote

\* C33 witness: a second invocation of the flow failed to store its server
\* password after the first had completed the onboarding, which stays
\* complete with the credentials of the first
C33_Witness ==
    /\ Truthy(config["tutorial_is_done"])
    /\ \E a \in Attempts : trace[a].store = "failed" /\ trace[a].end # "none"
    /\ \A account \in CredentialAccounts : Truthy(keychain[account])


\* An invocation of handleConnectSecure has begun and has not ended
Running(a) == pc[a] # "idle" /\ ~Ended(a)

\* C34: no two invocations of the flow are under way at once, one paused
\* after a cancelled installation included.
C34_SingleFlight ==
    \A a, b \in Attempts : (Running(a) /\ Running(b)) => a = b

----------------------------------------------------------------------------
(* Stored keys and device id: properties of SpecIdentity and SpecStore *)

\* C35: a private key and a public key that are both in the Keychain are
\* the two halves of one generated keypair.
C35_StoredKeysArePair ==
    (Truthy(keychain[ACCOUNT_PRIVATE]) /\ Truthy(keychain[ACCOUNT_PUBLIC]))
        => KeysMatch(keychain[ACCOUNT_PUBLIC], keychain[ACCOUNT_PRIVATE])


\* C36: no step of ensureKeypair changes a device id the Keychain holds; a
\* call begins to write only when the Keychain lacks the private key, the
\* public key or the device id; and a call that returns isNew = true has stored the
\* keypair it generated and returns it with the device id of the Keychain.
C36_DeviceIdKept ==
    [][\A c \in Calls :
          (EnsureRead(c) \/ EnsureWrite(c))
             => /\ Truthy(keychain[ACCOUNT_DEVICE_ID])
                      => keychain'[ACCOUNT_DEVICE_ID] = keychain[ACCOUNT_DEVICE_ID]
                /\ (keychain' # keychain /\ ensureCalls[c].pc = "write-private")
                      => ~HasIdentity(keychain)
                /\ keychain' # keychain => ensureCalls[c].pc # "read-private"
                                           /\ ensureCalls[c].pc # "read-public"
                                           /\ ensureCalls[c].pc # "read-device"
                /\ (Returned(ensureCalls'[c]) /\ ensureCalls'[c].isNew)
                      => /\ keychain'[ACCOUNT_PUBLIC] = PublicKeyOf(c)
                         /\ keychain'[ACCOUNT_PRIVATE] = PrivateKeyOf(c)
                         /\ IdentityOf(ensureCalls'[c]) = StoreIdentity(keychain')]_vars

----------------------------------------------------------------------------
(* Where the flow puts the secrets: properties of Spec *)

Credentials == {PasswordOf(e) : e \in Attempts} \cup {WebhookSecretOf(e) : e \in Attempts}

TunnelTokens == {TunnelTokenOf(e) : e \in Attempts}

\* C37: no key of the configuration table holds a server password, a
\* webhook secret or a tunnel token the flow decrypted, no row of the
\* webhooks table holds one in its url, and no account of the Keychain
\* holds a tunnel token.
C37_SecretsOnlyInKeychain ==
    /\ \A key \in ConfigKeys : config[key] \notin Credentials \cup TunnelTokens
    /\ \A i \in 1..Len(webhooks) : webhooks[i].url \notin Credentials \cup TunnelTokens
    /\ \A account \in Accounts : keychain[account] \notin TunnelTokens

\* C37 witness: an invocation completed; its server password and webhook
\* secret are in the Keychain, its tunnel token went to the installer, its
\* linkage is in the configuration table
C37_Witness ==
    \E a \in Attempts :
        /\ pc[a] = "complete"
        /\ keychain[ACCOUNT_SERVER_PASSWORD] = PasswordOf(a)
        /\ keychain[ACCOUNT_WEBHOOK_SECRET] = WebhookSecretOf(a)
        /\ TunnelTokenOf(a) \in trace[a].installedWith
        /\ config["server_id"] = ServerIdOf(a)

----------------------------------------------------------------------------
(* Signals of a heartbeat delivery: properties of SpecDispatch *)

\* C38: a heartbeat delivery that has settled emitted at most one signal,
\* relay-server-found or relay-server-not-found; relay-server-found only if
\* its POST succeeded; and none if its POST failed without the marker in
\* the error body.
C38_AtMostOneSignal ==
    HeartbeatSettled =>
        /\ Len(settled.emitted) <= 1
        /\ \A k \in 1..Len(settled.emitted) :
              settled.emitted[k] \in {"relay-server-found", "relay-server-not-found"}
        /\ includes(settled.emitted, "relay-server-found") => settled.ok
        /\ (~settled.ok /\ ~HasMarker(settled.data)) => settled.emitted = <<>>

\* C38 witness: the POST of a heartbeat was never answered, and nothing was
\* emitted
C38_Witness ==
    /\ HeartbeatSettled
    /\ ~settled.ok /\ ~settled.hasResponse
    /\ settled.emitted = <<>>
    /\ signals = {}

(***************************************************************************)
(* Running state and timers of the monitor: properties of SpecHeartbeat    *)
(***************************************************************************)

\* The recurring timer whose handle the monitor holds is still pending
HoldsLiveInterval ==
    \E t \in RecurringTimers(timers) : t.id = heartbeat.intervalId

\* C39: after any sequence of start() and stop() the monitor is running
\* exactly when its intervalId is set, the handle then names a pending
\* recurring timer, and while the monitor is stopped no timer that would
\* run a tick is pending.
C39_RunningIffLiveTimer ==
    /\ heartbeat.isRunning <=> heartbeat.intervalId # 0
    /\ heartbeat.isRunning <=> HoldsLiveInterval
    /\ ~heartbeat.isRunning => timers = {}

\* The part of C39 about the handle alone: running exactly when intervalId
\* is set and names the one pending recurring timer
C39_RunningIffIntervalSet ==
    /\ heartbeat.isRunning <=> heartbeat.intervalId # 0
    /\ heartbeat.isRunning <=> HoldsLiveInterval
    /\ Cardinality(RecurringTimers(timers)) <= 1

====
